---- MODULE Spec2Model ----
(***************************************************************************)
(* Model of examples/coroutine_based_thread_pool.cpp: a pool of worker     *)
(* threads that resumes coroutine handles taken from a mutex-protected     *)
(* ready queue.  Every block of the source that holds m_ is one atomic     *)
(* action.  What a thread does outside the mutex is a step of its own      *)
(* where another thread can observe it: the body of a unit up to its next  *)
(* yield or its end, h.done(), h.destroy(), the notify after an unlock.    *)
(* The start of resume() is joined to the dequeue before it, and the       *)
(* creation and destruction of the temporary Task to the spawn() call      *)
(* around which they happen: they touch only what the thread owns.         *)
(* A read of a freed frame returns either value, a second destroy() goes   *)
(* unnoticed, or either kills the process.                                 *)
(*                                                                         *)
(* Spec: a pool built with 0..NumWorkers, used by two threads.             *)
(* FairSpec: Spec with every thread inside a call scheduled.               *)
(* MainSpec: the pool used by the one thread that built it, resumes        *)
(* counted.  StepperSpec: main() of the example.  ThrowSpec: Spec with     *)
(* bodies that may end with an exception.                                  *)
(*                                                                         *)
(* The other examples follow the pool, each with a specification of its    *)
(* own over the one variable example: IoSpec (09_coroutine_async_io.cpp),  *)
(* TpSpec (01_thread_pool_lock_based.cpp), RcuSpec                         *)
(* (06_pubsub_lockfree_rcu.cpp), CtrSpec and SpinSpec                      *)
(* (07_atomic_memory_ordering.cpp).  EmptySpec is MainSpec with spawns of  *)
(* empty Tasks, TaskSpec the Task class without a pool, TpLateSpec is      *)
(* TpSpec with a second thread that enqueues; LfqSpec                      *)
(* (02_lock_free_queue.cpp), SingSpec (Singleton of                        *)
(* 07_atomic_memory_ordering.cpp), SpscSpec (10_hybrid_approach.cpp).      *)
(***************************************************************************)
EXTENDS Integers, Sequences, FiniteSets, TLC

\* ------------------------------------------------------------------ bounds
NumWorkers == 2      \* largest argument a ThreadPool is constructed with
MaxUnits   == 2      \* coroutine frames created over a run
MaxYields  == 1      \* co_await yield_once() executed by one unit at most

Units   == 1..MaxUnits
Null    == 0                       \* the null coroutine handle
Callers == {"main", "aux"}         \* threads that use the pool from outside

VARIABLES
  q_,        \* std::deque<coro_handle>: the ready queue
  pending_,  \* std::size_t counter; a value v < 0 stands for 2^64 + v (wrapped)
  stop_,     \* bool
  cv_,       \* workers blocked in cv_.wait
  cv_idle_,  \* callers blocked in cv_idle_.wait
  wpc,       \* position of each worker in worker_loop
  wh,        \* worker_loop's local h
  frame,     \* state of each coroutine frame
  left,      \* yields a unit's body still performs before it returns
  cpc,       \* position of each caller
  task,      \* the caller's Task object: its h_
  ch,        \* the local h of spawn() / of the destructor's drain loop
  before,    \* units whose spawn() had returned when main made its current
             \* call of wait_idle() or of the destructor, and whose frame
             \* has not been destroyed since
  terminated, \* the process was killed (abort on a corrupted heap, SIGSEGV)
  threads,   \* the argument the pool was constructed with
  counting,  \* whether this run keeps the count below
  resumes    \* history: the resume() calls made on each frame that exists

vars == <<q_, pending_, stop_, cv_, cv_idle_, wpc, wh, frame, left, cpc, task,
          ch, before, terminated, threads, counting, resumes>>

VARIABLE
  example    \* the objects of the one other example of the repository that a
             \* run is about, a record of their fields and of the positions
             \* of its threads; empty in a run of the coroutine pool

\* what a run of the pool never changes: how it was constructed, and the
\* objects of the other examples
config == <<threads, counting, example>>

\* no other example takes part
NoExample == <<>>

\* (mutant) a constructor that starts as many threads as it was asked for
ThreadCountAsGiven(n) == n

\* ThreadPool(threads): if (threads == 0) threads = 1;
ThreadCount(n) == IF n = 0 THEN 1 ELSE n

\* workers_: the threads the constructor started
Workers == DOMAIN wpc

\* ---------------------------------------------------------------- helpers
InQueue(u) == \E i \in 1..Len(q_) : q_[i] = u

\* (mutant) q_.push_front(h)
push_front(queue, h) == <<h>> \o queue

\* q_.push_back(h)
push_back(queue, h) == Append(queue, h)

\* q_.front()
front(queue) == Head(queue)

\* q_.pop_front()
pop_front(queue) == Tail(queue)

\* condition_variable::notify_one: the wait sets it can leave behind
notify_one(waiting) ==
  IF waiting = {} THEN {waiting} ELSE {waiting \ {t} : t \in waiting}

\* condition_variable::notify_all
notify_all(waiting) == {}

\* (mutant) a move assignment that leaves the target's handle in place
MoveAssignKeeps(h_, other_h_) == h_

\* Task& Task::operator=(Task&& other): the value of h_ afterwards
MoveAssign(h_, other_h_) == other_h_

\* the predicate of cv_.wait in worker_loop
WorkerPred == stop_ \/ q_ # <<>>

\* (mutant) a predicate that asks for a queue that is not empty
IdlePredNotEmpty == pending_ = 0 /\ q_ # <<>>

\* the predicate of cv_idle_.wait in wait_idle
IdlePred == pending_ = 0 /\ q_ = <<>>

\* the frame that the next coroutine call creates
FreshUnits == {u \in Units : frame[u] = "none"}
NextUnit == CHOOSE u \in FreshUnits : \A v \in FreshUnits : u <= v

\* spawn() of unit u has returned
SpawnReturned(u) ==
  /\ frame[u] # "none"
  /\ \A c \in Callers : task[c] # u /\ ~(cpc[c] = "notify" /\ ch[c] = u)

PoolAlive == cpc["main"] # "end"

\* history: one more resume() on frame u, in a run that counts them
Counted(count, u) ==
  IF counting THEN [count EXCEPT ![u] = count[u] + 1] ELSE count

\* history: the count of a frame goes with the frame
Forgotten(count, frames) ==
  [u \in Units |-> IF frames[u] = "destroyed" THEN 0 ELSE count[u]]

\* the units of a set whose frame has not been destroyed
StillOwed(units, frames) == {u \in units : frames[u] # "destroyed"}

\* ------------------------------------------------------------------- Init
\* the pool after ThreadPool(threads), no coroutine created yet
Constructed ==
  /\ q_ = <<>>
  /\ pending_ = 0
  /\ stop_ = FALSE
  /\ cv_ = {}
  /\ cv_idle_ = {}
  /\ threads \in 0..NumWorkers
  /\ wpc = [w \in 1..ThreadCount(threads) |-> "wait"]
  /\ wh = [w \in 1..ThreadCount(threads) |-> Null]
  /\ frame = [u \in Units |-> "none"]
  /\ left = [u \in Units |-> 0]
  /\ cpc = [c \in Callers |-> "run"]
  /\ task = [c \in Callers |-> Null]
  /\ ch = [c \in Callers |-> Null]
  /\ before = {}
  /\ terminated = FALSE
  /\ resumes = [u \in Units |-> 0]

Init == Constructed /\ counting = FALSE /\ example = NoExample

\* ---------------------------------------------------------------- callers
\* pool.spawn(stepper(...)) up to the end of spawn's critical section.  The
\* coroutine call creates the frame suspended at initial_suspend and a
\* temporary Task t that owns its handle; spawn takes h = t.handle() and
\* empties t with t = Task{}.
SpawnEnqueue(c) ==
  /\ ~terminated /\ UNCHANGED <<config, resumes>>
  /\ cpc[c] = "run" /\ PoolAlive /\ FreshUnits # {}
  /\ \E k \in 0..MaxYields :
       /\ frame' = [frame EXCEPT ![NextUnit] = "suspended"]
       /\ left' = [left EXCEPT ![NextUnit] = k]
  /\ ch' = [ch EXCEPT ![c] = NextUnit]
  /\ task' = [task EXCEPT ![c] = MoveAssign(NextUnit, Null)]
  /\ pending_' = pending_ + 1
  /\ q_' = push_back(q_, NextUnit)
  /\ cpc' = [cpc EXCEPT ![c] = "notify"]
  /\ UNCHANGED <<stop_, cv_, cv_idle_, wpc, wh, before, terminated>>

\* ~Task(): if (h_) h_.destroy();
TaskDtor(frames, h_) ==
  IF h_ # Null THEN [frames EXCEPT ![h_] = "destroyed"] ELSE frames

\* (mutant) a spawn() that appends the handle after it released the mutex
SpawnNotifyAppends(c) ==
  /\ ~terminated /\ UNCHANGED <<config, resumes>>
  /\ cpc[c] = "notify"
  /\ q_' = push_back(q_, ch[c])
  /\ cv_' \in notify_one(cv_)
  /\ ch' = [ch EXCEPT ![c] = Null]
  /\ frame' = TaskDtor(frame, task[c])
  /\ task' = [task EXCEPT ![c] = Null]
  /\ cpc' = [cpc EXCEPT ![c] = "run"]
  /\ UNCHANGED <<pending_, stop_, cv_idle_, wpc, wh, left, before,
                 terminated>>

\* spawn(): cv_.notify_one() after the mutex was released; spawn returns and
\* the temporary Task is destroyed at the end of the full expression
SpawnNotify(c) ==
  /\ ~terminated /\ UNCHANGED <<config, resumes>>
  /\ cpc[c] = "notify"
  /\ cv_' \in notify_one(cv_)
  /\ ch' = [ch EXCEPT ![c] = Null]
  /\ frame' = TaskDtor(frame, task[c])
  /\ task' = [task EXCEPT ![c] = Null]
  /\ cpc' = [cpc EXCEPT ![c] = "run"]
  /\ UNCHANGED <<q_, pending_, stop_, cv_idle_, wpc, wh, left, before,
                 terminated>>

\* main calls wait_idle()
WaitIdleCall ==
  /\ ~terminated /\ UNCHANGED <<config, resumes>>
  /\ cpc["main"] = "run"
  /\ before' = StillOwed({u \in Units : SpawnReturned(u)}, frame)
  /\ cpc' = [cpc EXCEPT !["main"] = "wait_idle"]
  /\ UNCHANGED <<q_, pending_, stop_, cv_, cv_idle_, wpc, wh, frame, left,
                 task, ch, terminated>>

\* wait_idle(): one evaluation of the predicate under the mutex
WaitIdleCheck ==
  /\ ~terminated /\ UNCHANGED <<config, resumes>>
  /\ cpc["main"] = "wait_idle" /\ "main" \notin cv_idle_
  /\ IF IdlePred
       THEN /\ cpc' = [cpc EXCEPT !["main"] = "run"]
            /\ before' = {}
            /\ UNCHANGED cv_idle_
       ELSE /\ cv_idle_' = cv_idle_ \cup {"main"}
            /\ UNCHANGED <<cpc, before>>
  /\ UNCHANGED <<q_, pending_, stop_, cv_, wpc, wh, frame, left, task, ch,
                 terminated>>

\* ---------------------------------------------------------------- workers
\* (mutant) a worker that only takes the units assigned to it by their number
WorkerWaitPinned(w) ==
  /\ ~terminated /\ UNCHANGED config
  /\ wpc[w] = "wait" /\ w \notin cv_
  /\ IF ~WorkerPred
       THEN /\ cv_' = cv_ \cup {w}
            /\ UNCHANGED <<wpc, wh, q_, frame, resumes>>
       ELSE IF stop_ /\ q_ = <<>>
         THEN /\ wpc' = [wpc EXCEPT ![w] = "exited"]
              /\ UNCHANGED <<cv_, wh, q_, frame, resumes>>
         ELSE /\ front(q_) % Cardinality(Workers) = w % Cardinality(Workers)
              /\ wh' = [wh EXCEPT ![w] = front(q_)]
              /\ q_' = pop_front(q_)
              /\ frame[front(q_)] = "suspended"
              /\ frame' = [frame EXCEPT ![front(q_)] = "running"]
              /\ resumes' = Counted(resumes, front(q_))
              /\ wpc' = [wpc EXCEPT ![w] = "running"]
              /\ UNCHANGED cv_
  /\ UNCHANGED <<pending_, stop_, cv_idle_, left, cpc, task, ch, before,
                 terminated>>

\* (mutant) a worker that leaves its loop as soon as it sees stop_
WorkerWaitLeavesOnStop(w) ==
  /\ ~terminated /\ UNCHANGED config
  /\ wpc[w] = "wait" /\ w \notin cv_
  /\ IF ~WorkerPred
       THEN /\ cv_' = cv_ \cup {w}
            /\ UNCHANGED <<wpc, wh, q_, frame, resumes>>
       ELSE IF stop_
         THEN /\ wpc' = [wpc EXCEPT ![w] = "exited"]
              /\ UNCHANGED <<cv_, wh, q_, frame, resumes>>
         ELSE /\ wh' = [wh EXCEPT ![w] = front(q_)]
              /\ q_' = pop_front(q_)
              /\ frame[front(q_)] = "suspended"
              /\ frame' = [frame EXCEPT ![front(q_)] = "running"]
              /\ resumes' = Counted(resumes, front(q_))
              /\ wpc' = [wpc EXCEPT ![w] = "running"]
              /\ UNCHANGED cv_
  /\ UNCHANGED <<pending_, stop_, cv_idle_, left, cpc, task, ch, before,
                 terminated>>

\* worker_loop: the block that holds m_; with a handle dequeued the worker
\* goes on to h.resume(), and the body starts to run on this thread
WorkerWait(w) ==
  /\ ~terminated /\ UNCHANGED config
  /\ wpc[w] = "wait" /\ w \notin cv_
  /\ IF ~WorkerPred
       THEN /\ cv_' = cv_ \cup {w}
            /\ UNCHANGED <<wpc, wh, q_, frame, resumes>>
       ELSE IF stop_ /\ q_ = <<>>
         THEN /\ wpc' = [wpc EXCEPT ![w] = "exited"]
              /\ UNCHANGED <<cv_, wh, q_, frame, resumes>>
         ELSE /\ wh' = [wh EXCEPT ![w] = front(q_)]
              /\ q_' = pop_front(q_)
              /\ frame[front(q_)] = "suspended"
              /\ frame' = [frame EXCEPT ![front(q_)] = "running"]
              /\ resumes' = Counted(resumes, front(q_))
              /\ wpc' = [wpc EXCEPT ![w] = "running"]
              /\ UNCHANGED cv_
  /\ UNCHANGED <<pending_, stop_, cv_idle_, left, cpc, task, ch, before,
                 terminated>>

\* (mutant) a yield that puts the unit at the front of the queue
BodyYieldFirst(u) ==
  /\ frame[u] = "running" /\ left[u] > 0
  /\ q_' = <<u>> \o q_
  /\ cv_' \in notify_one(cv_)
  /\ frame' = [frame EXCEPT ![u] = "suspended"]
  /\ left' = [left EXCEPT ![u] = left[u] - 1]

\* (mutant) a yield whose await_suspend enqueues the handle twice
BodyYieldTwice(u) ==
  /\ frame[u] = "running" /\ left[u] > 0
  /\ q_' = push_back(push_back(q_, u), u)
  /\ cv_' \in notify_one(cv_)
  /\ frame' = [frame EXCEPT ![u] = "suspended"]
  /\ left' = [left EXCEPT ![u] = left[u] - 1]

\* co_await yield_once(): await_suspend -> enqueue_(h), then resume() returns
BodyYield(u) ==
  /\ frame[u] = "running" /\ left[u] > 0
  /\ q_' = push_back(q_, u)
  /\ cv_' \in notify_one(cv_)
  /\ frame' = [frame EXCEPT ![u] = "suspended"]
  /\ left' = [left EXCEPT ![u] = left[u] - 1]

\* (mutant) a unit that is put back on the queue when its body returns
BodyReturnRequeued(u) ==
  /\ frame[u] = "running" /\ left[u] = 0
  /\ frame' = [frame EXCEPT ![u] = "done"]
  /\ q_' = push_back(q_, u)
  /\ UNCHANGED <<cv_, left>>

\* the body returns: final_suspend, then resume() returns
BodyReturn(u) ==
  /\ frame[u] = "running" /\ left[u] = 0
  /\ frame' = [frame EXCEPT ![u] = "done"]
  /\ UNCHANGED <<q_, cv_, left>>

WorkerYield(w) ==
  /\ ~terminated /\ UNCHANGED <<config, resumes>>
  /\ wpc[w] = "running"
  /\ BodyYield(wh[w])
  /\ wpc' = [wpc EXCEPT ![w] = "check"]
  /\ UNCHANGED <<pending_, stop_, cv_idle_, wh, cpc, task, ch, before,
                 terminated>>

WorkerReturn(w) ==
  /\ ~terminated /\ UNCHANGED <<config, resumes>>
  /\ wpc[w] = "running"
  /\ BodyReturn(wh[w])
  /\ wpc' = [wpc EXCEPT ![w] = "check"]
  /\ UNCHANGED <<pending_, stop_, cv_idle_, wh, cpc, task, ch, before,
                 terminated>>

\* h.done(): the values the call can return.  On a destroyed frame the read is
\* a use after free and returns whatever the freed memory holds.
done(u) ==
  CASE frame[u] = "done" -> {TRUE}
    [] frame[u] = "destroyed" -> {TRUE, FALSE}
    [] OTHER -> {FALSE}

\* (mutant) a worker that puts a handle that is not done back on the queue,
\* although yield_once() has enqueued it already
WorkerCheckDoneRequeues(w) ==
  /\ ~terminated /\ UNCHANGED <<config, resumes>>
  /\ wpc[w] = "check"
  /\ \E d \in done(wh[w]) :
       IF d THEN /\ wpc' = [wpc EXCEPT ![w] = "destroy"]
                 /\ UNCHANGED <<wh, q_>>
            ELSE /\ wpc' = [wpc EXCEPT ![w] = "wait"]
                 /\ wh' = [wh EXCEPT ![w] = Null]
                 /\ q_' = push_back(q_, wh[w])
  /\ UNCHANGED <<pending_, stop_, cv_, cv_idle_, frame, left, cpc, task,
                 ch, before>>
  /\ UNCHANGED terminated

\* worker_loop: if (h.done()) after resume() returned
WorkerCheckDone(w) ==
  /\ ~terminated /\ UNCHANGED <<config, resumes>>
  /\ wpc[w] = "check"
  /\ \E d \in done(wh[w]) :
       IF d THEN /\ wpc' = [wpc EXCEPT ![w] = "destroy"]
                 /\ UNCHANGED wh
            ELSE /\ wpc' = [wpc EXCEPT ![w] = "wait"]
                 /\ wh' = [wh EXCEPT ![w] = Null]
  /\ UNCHANGED <<q_, pending_, stop_, cv_, cv_idle_, frame, left, cpc, task,
                 ch, before>>
  /\ UNCHANGED terminated

\* worker_loop: h.destroy()
WorkerDestroy(w) ==
  /\ ~terminated /\ UNCHANGED config
  /\ wpc[w] = "destroy"
  /\ frame' = [frame EXCEPT ![wh[w]] = "destroyed"]
  /\ before' = StillOwed(before, frame')
  /\ resumes' = Forgotten(resumes, frame')
  /\ wpc' = [wpc EXCEPT ![w] = "decrement"]
  /\ UNCHANGED <<q_, pending_, stop_, cv_, cv_idle_, wh, left, cpc, task, ch,
                 terminated>>

\* worker_loop: if (--pending_ == 0 && q_.empty()) cv_idle_.notify_all();
WorkerDecrement(w) ==
  /\ ~terminated /\ UNCHANGED <<config, resumes>>
  /\ wpc[w] = "decrement"
  /\ pending_' = pending_ - 1
  /\ IF pending_' = 0 /\ q_ = <<>>
       THEN cv_idle_' = notify_all(cv_idle_)
       ELSE cv_idle_' = cv_idle_
  /\ wpc' = [wpc EXCEPT ![w] = "wait"]
  /\ wh' = [wh EXCEPT ![w] = Null]
  /\ UNCHANGED <<q_, stop_, cv_, frame, left, cpc, task, ch, before,
                 terminated>>

\* done() or destroy() on a frame that was already freed may also kill the
\* process (heap corruption detected by the allocator, invalid read)
WorkerCrash(w) ==
  /\ ~terminated /\ UNCHANGED <<config, resumes>>
  /\ wpc[w] \in {"check", "destroy"}
  /\ frame[wh[w]] = "destroyed"
  /\ terminated' = TRUE
  /\ UNCHANGED <<q_, pending_, stop_, cv_, cv_idle_, wpc, wh, frame, left,
                 cpc, task, ch, before>>

\* a condition variable may wake a waiter without a notification
SpuriousWake ==
  /\ ~terminated /\ UNCHANGED <<config, resumes>>
  /\ \/ \E w \in cv_ : cv_' = cv_ \ {w} /\ UNCHANGED cv_idle_
     \/ \E c \in cv_idle_ : cv_idle_' = cv_idle_ \ {c} /\ UNCHANGED cv_
  /\ UNCHANGED <<q_, pending_, stop_, wpc, wh, frame, left, cpc, task, ch,
                 before, terminated>>

\* ------------------------------------------------------------- destructor
\* ~ThreadPool: stop_ = true; cv_.notify_all(); under the mutex
DtorStop ==
  /\ ~terminated /\ UNCHANGED <<config, resumes>>
  /\ cpc["main"] = "run"
  /\ stop_' = TRUE
  /\ cv_' = notify_all(cv_)
  /\ before' = StillOwed({u \in Units : SpawnReturned(u)}, frame)
  /\ cpc' = [cpc EXCEPT !["main"] = "join"]
  /\ UNCHANGED <<q_, pending_, cv_idle_, wpc, wh, frame, left, task, ch,
                 terminated>>

\* (mutant) a destructor that goes on to drain without joining the workers
DtorJoinSkipped ==
  /\ ~terminated /\ UNCHANGED <<config, resumes>>
  /\ cpc["main"] = "join"
  /\ cpc' = [cpc EXCEPT !["main"] = "drain"]
  /\ UNCHANGED <<q_, pending_, stop_, cv_, cv_idle_, wpc, wh, frame, left,
                 task, ch, before, terminated>>

\* (mutant) a destructor that goes on once one of the workers has exited
DtorJoinAny ==
  /\ ~terminated /\ UNCHANGED <<config, resumes>>
  /\ cpc["main"] = "join"
  /\ \E w \in Workers : wpc[w] = "exited"
  /\ cpc' = [cpc EXCEPT !["main"] = "drain"]
  /\ UNCHANGED <<q_, pending_, stop_, cv_, cv_idle_, wpc, wh, frame, left,
                 task, ch, before, terminated>>

\* ~ThreadPool: for (auto& t : workers_) t.join();
DtorJoin ==
  /\ ~terminated /\ UNCHANGED <<config, resumes>>
  /\ cpc["main"] = "join"
  /\ \A w \in Workers : wpc[w] = "exited"
  /\ cpc' = [cpc EXCEPT !["main"] = "drain"]
  /\ UNCHANGED <<q_, pending_, stop_, cv_, cv_idle_, wpc, wh, frame, left,
                 task, ch, before, terminated>>

\* drain loop: the block that holds m_, then if (!h.done()) { h.resume(); }
DrainPop ==
  /\ ~terminated /\ UNCHANGED config
  /\ cpc["main"] = "drain"
  /\ IF q_ = <<>>
       THEN /\ cpc' = [cpc EXCEPT !["main"] = "end"]
            /\ UNCHANGED <<q_, ch, frame, resumes>>
       ELSE /\ ch' = [ch EXCEPT !["main"] = front(q_)]
            /\ q_' = pop_front(q_)
            /\ frame[front(q_)] = "suspended"
            /\ frame' = [frame EXCEPT ![front(q_)] = "running"]
            /\ resumes' = Counted(resumes, front(q_))
            /\ cpc' = [cpc EXCEPT !["main"] = "drain_running"]
  /\ UNCHANGED <<pending_, stop_, cv_, cv_idle_, wpc, wh, left, task,
                 before, terminated>>

DrainYield ==
  /\ ~terminated /\ UNCHANGED <<config, resumes>>
  /\ cpc["main"] = "drain_running"
  /\ BodyYield(ch["main"])
  /\ cpc' = [cpc EXCEPT !["main"] = "drain_check"]
  /\ UNCHANGED <<pending_, stop_, cv_idle_, wpc, wh, task, ch, before,
                 terminated>>

DrainReturn ==
  /\ ~terminated /\ UNCHANGED <<config, resumes>>
  /\ cpc["main"] = "drain_running"
  /\ BodyReturn(ch["main"])
  /\ cpc' = [cpc EXCEPT !["main"] = "drain_check"]
  /\ UNCHANGED <<pending_, stop_, cv_idle_, wpc, wh, task, ch, before,
                 terminated>>

\* drain loop: if (h && h.done()) h.destroy();
DrainDestroy ==
  /\ ~terminated /\ UNCHANGED config
  /\ cpc["main"] = "drain_check"
  /\ \E d \in done(ch["main"]) :
       IF d THEN frame' = [frame EXCEPT ![ch["main"]] = "destroyed"]
            ELSE frame' = frame
  /\ before' = StillOwed(before, frame')
  /\ resumes' = Forgotten(resumes, frame')
  /\ ch' = [ch EXCEPT !["main"] = Null]
  /\ cpc' = [cpc EXCEPT !["main"] = "drain"]
  /\ UNCHANGED <<q_, pending_, stop_, cv_, cv_idle_, wpc, wh, left, task,
                 terminated>>

\* ------------------------------------------------------------------- Next
Next ==
  \/ \E c \in Callers : SpawnEnqueue(c)
  \/ \E c \in Callers : SpawnNotify(c)
  \/ WaitIdleCall
  \/ WaitIdleCheck
  \/ \E w \in Workers : WorkerWait(w)
  \/ \E w \in Workers : WorkerYield(w)
  \/ \E w \in Workers : WorkerReturn(w)
  \/ \E w \in Workers : WorkerCheckDone(w)
  \/ \E w \in Workers : WorkerDestroy(w)
  \/ \E w \in Workers : WorkerDecrement(w)
  \/ \E w \in Workers : WorkerCrash(w)
  \/ SpuriousWake
  \/ DtorStop
  \/ DtorJoin
  \/ DrainPop
  \/ DrainYield
  \/ DrainReturn
  \/ DrainDestroy

Spec == Init /\ [][Next]_vars

\* ------------------------------------------------------- one caller
\* The pool used from one thread, as main() does: the thread that constructed
\* the pool spawns, waits for idle and destroys it; the resumes are counted.
MainInit == Constructed /\ counting = TRUE /\ example = NoExample

MainNext ==
  \/ SpawnEnqueue("main")
  \/ SpawnNotify("main")
  \/ WaitIdleCall
  \/ WaitIdleCheck
  \/ \E w \in Workers : WorkerWait(w)
  \/ \E w \in Workers : WorkerYield(w)
  \/ \E w \in Workers : WorkerReturn(w)
  \/ \E w \in Workers : WorkerCheckDone(w)
  \/ \E w \in Workers : WorkerDestroy(w)
  \/ \E w \in Workers : WorkerDecrement(w)
  \/ \E w \in Workers : WorkerCrash(w)
  \/ SpuriousWake
  \/ DtorStop
  \/ DtorJoin
  \/ DrainPop

MainSpec == MainInit /\ [][MainNext]_vars

\* ------------------------------------------------------ the example
\* main(): a pool with the largest number of workers, MaxUnits calls of
\* pool.spawn(stepper(pool, i, steps, work_ms)) with steps = MaxYields, then
\* pool.wait_idle(), then the destructor at the end of main
StepperInit == MainInit /\ threads = NumWorkers

StepperNext ==
  \/ SpawnEnqueue("main") /\ left'[NextUnit] = MaxYields
  \/ SpawnNotify("main")
  \/ WaitIdleCall /\ FreshUnits = {}
  \/ WaitIdleCheck
  \/ \E w \in Workers : WorkerWait(w)
  \/ \E w \in Workers : WorkerYield(w)
  \/ \E w \in Workers : WorkerReturn(w)
  \/ \E w \in Workers : WorkerCheckDone(w)
  \/ \E w \in Workers : WorkerDestroy(w)
  \/ \E w \in Workers : WorkerDecrement(w)
  \/ \E w \in Workers : WorkerCrash(w)
  \/ SpuriousWake
  \/ DtorStop /\ FreshUnits = {}
  \/ DtorJoin
  \/ DrainPop

StepperSpec == StepperInit /\ [][StepperNext]_vars

\* ------------------------------------------------- bodies that may throw
\* (mutant) an unhandled_exception() that returns: the unit goes on to its
\* final suspend and resume() returns to the worker
WorkerThrowSwallowed(w) ==
  /\ ~terminated /\ UNCHANGED <<config, resumes>>
  /\ wpc[w] = "running"
  /\ frame' = [frame EXCEPT ![wh[w]] = "threw"]
  /\ wpc' = [wpc EXCEPT ![w] = "check"]
  /\ UNCHANGED <<q_, pending_, stop_, cv_, cv_idle_, wh, left, cpc, task, ch,
                 before, terminated>>

\* the body of the unit a worker is running throws: the exception reaches
\* promise_type::unhandled_exception(), which calls std::terminate()
WorkerThrow(w) ==
  /\ ~terminated /\ UNCHANGED <<config, resumes>>
  /\ wpc[w] = "running"
  /\ frame' = [frame EXCEPT ![wh[w]] = "threw"]
  /\ terminated' = TRUE
  /\ UNCHANGED <<q_, pending_, stop_, cv_, cv_idle_, wpc, wh, left, cpc,
                 task, ch, before>>

\* the same in a unit that the destructor's drain loop resumed
DrainThrow ==
  /\ ~terminated /\ UNCHANGED <<config, resumes>>
  /\ cpc["main"] = "drain_running"
  /\ frame' = [frame EXCEPT ![ch["main"]] = "threw"]
  /\ terminated' = TRUE
  /\ UNCHANGED <<q_, pending_, stop_, cv_, cv_idle_, wpc, wh, left, cpc,
                 task, ch, before>>

ThrowNext ==
  \/ Next
  \/ \E w \in Workers : WorkerThrow(w)
  \/ DrainThrow

\* the pool with units whose bodies may end with an exception
ThrowSpec == Init /\ [][ThrowNext]_vars

\* --------------------------------------------------------------- fairness
\* Every thread that is inside a call keeps running: the operating system
\* schedules each runnable thread eventually.  What a caller does next between
\* calls, a crash and a spurious wake-up are not forced.
WorkerStep(w) ==
  \/ WorkerWait(w) \/ WorkerYield(w) \/ WorkerReturn(w)
  \/ WorkerCheckDone(w) \/ WorkerDestroy(w) \/ WorkerDecrement(w)

CallerStep(c) ==
  \/ SpawnNotify(c)
  \/ (c = "main" /\ (WaitIdleCheck \/ DtorJoin \/ DrainPop \/ DrainYield
                      \/ DrainReturn \/ DrainDestroy))

FairSpec ==
  /\ Spec
  /\ \A w \in 1..NumWorkers : WF_vars(w \in Workers /\ WorkerStep(w))
  /\ \A c \in Callers : WF_vars(CallerStep(c))

\* ----------------------------------------------------------------- claims
\* Steps, told apart by the positions of the threads before and after.
WaitIdleReturns == cpc["main"] = "wait_idle" /\ cpc'["main"] = "run"
SpawnStep(c) == cpc[c] = "run" /\ cpc'[c] = "notify"
NotifyStep(c) == cpc[c] = "notify" /\ cpc'[c] = "run"
CallsDone(w) == wpc[w] = "check" /\ wpc'[w] # "check"
CallsDestroy(w) == wpc[w] = "destroy" /\ wpc'[w] = "decrement"
CallsResume(w) == wpc[w] = "wait" /\ wpc'[w] = "running"
DrainCallsResume == cpc["main"] = "drain" /\ cpc'["main"] = "drain_running"
DrainCallsDone == cpc["main"] = "drain_check" /\ cpc'["main"] = "drain"

\* C1: wait_idle() returns only in a state where every unit whose spawn()
\* returned before the call is completed and destroyed, and pending_ is 0.
C1_WaitIdleIsBarrier ==
  [][WaitIdleReturns =>
       /\ pending_ = 0
       /\ \A u \in before : frame[u] = "destroyed"]_vars

\* C2: once a unit's frame is destroyed, no thread calls resume(), done() or
\* destroy() on its handle again.
C2_NoUseAfterDestroy ==
  [][/\ \A w \in Workers :
          /\ (CallsDone(w) \/ CallsDestroy(w)) => frame[wh[w]] # "destroyed"
          /\ CallsResume(w) => frame[Head(q_)] # "destroyed"
     /\ DrainCallsResume => frame[Head(q_)] # "destroyed"
     /\ DrainCallsDone => frame[ch["main"]] # "destroyed"]_vars

\* C3: a handle has one owner at a time: no worker inspects (done) or destroys
\* a handle that is in the ready queue, and while one thread executes resume()
\* on a unit no other thread calls resume(), done() or destroy() on it.
RunsOn(u) ==
  {w \in Workers : wh[w] = u /\ wpc[w] = "running"}
    \cup {c \in {"main"} : ch[c] = u /\ cpc[c] = "drain_running"}

C3_SingleOwner ==
  [][/\ \A w \in Workers :
          /\ (CallsDone(w) \/ CallsDestroy(w))
                => ~InQueue(wh[w]) /\ RunsOn(wh[w]) = {}
          /\ CallsResume(w) => RunsOn(Head(q_)) = {}
     /\ DrainCallsDone
          => ~InQueue(ch["main"]) /\ RunsOn(ch["main"]) = {}
     /\ DrainCallsResume => RunsOn(Head(q_)) = {}]_vars

\* C4: a unit is destroyed exactly once, and only in the Completed state: every
\* destroy() is called on a frame that is at its final suspend point and has
\* not been destroyed before.
C4_DestroyOnceWhenCompleted ==
  [][/\ \A w \in Workers : CallsDestroy(w) => frame[wh[w]] = "done"
     /\ \A u \in Units :
          (frame[u] # "destroyed" /\ frame'[u] = "destroyed")
             => frame[u] = "done"]_vars

\* C5: a handle occurs at most once in the ready queue; a handle in the queue
\* is suspended (it was removed before it was resumed), and a handle enters
\* the queue only by spawn or by the yield of the unit itself while it runs.
C5_AtMostOnceInQueue ==
  /\ [](\A u \in Units :
          /\ Cardinality({i \in DOMAIN q_ : q_[i] = u}) <= 1
          /\ (\E i \in DOMAIN q_ : q_[i] = u) => frame[u] = "suspended")
  /\ [][\A u \in Units :
          (Len(q_') > Len(q_) /\ q_'[Len(q_')] = u)
             => \/ frame[u] = "running"
                \/ frame[u] = "none" /\ \E c \in Callers : SpawnStep(c)]_vars

\* C5 witness: a unit that yielded is back in the queue behind another handle,
\* while the worker that resumed it has not yet looked at it again.
C5_Witness ==
  \E w \in Workers, u \in Units :
    /\ wh[w] = u /\ wpc[w] = "check"
    /\ frame[u] = "suspended" /\ InQueue(u)
    /\ Len(q_) >= 2

\* C6: pending_ is 0 exactly when no unit is queued and none is being resumed.
\* Read in the claim's favour, and only while the pool is not shutting down:
\* with pending_ = 0 nothing is queued or running; and with nothing queued and
\* every worker outside the part of its loop that handles a dequeued handle,
\* pending_ is 0.
C6_PendingZeroIffIdle ==
  ~stop_ =>
    /\ pending_ = 0 => (q_ = <<>> /\ \A u \in Units : frame[u] # "running")
    /\ (q_ = <<>> /\ \A w \in Workers : wpc[w] = "wait") => pending_ = 0

\* C7: with every thread scheduled fairly, a wait_idle() that was called
\* returns (as long as the process lives).
C7_WaitIdleReturns ==
  (cpc["main"] = "wait_idle") ~> (cpc["main"] = "run" \/ terminated)

\* C8: when the destructor returns, every unit submitted before it started has
\* been destroyed, and during shutdown no frame is destroyed a second time or
\* before its body finished.
DtorReturns == cpc["main"] = "drain" /\ cpc'["main"] = "end"

C8_ShutdownDestroysEachOnce ==
  [][/\ DtorReturns => \A u \in before : frame[u] = "destroyed"
     /\ stop_ => \A w \in Workers : CallsDestroy(w) => frame[wh[w]] = "done"
     /\ (cpc["main"] = "drain_check" /\ frame'[ch["main"]] = "destroyed")
          => frame[ch["main"]] = "done"]_vars

\* C9: a spawn() issued after stop_ was set is rejected: it appends nothing to
\* the ready queue and does not increment pending_.
C9_SpawnAfterStopRejected ==
  [][\A c \in Callers :
       (stop_ /\ SpawnStep(c)) => (q_' = q_ /\ pending_' = pending_)]_vars

\* C10: spawn(t) with a non-empty Task increments pending_ by one, appends the
\* handle at the tail of the ready queue and leaves t empty; its notify_one
\* wakes exactly one waiting worker if there is one, and the destructor of t
\* leaves the frame alone.
C10_SpawnTransfersOwnership ==
  [][\A c \in Callers :
       /\ SpawnStep(c) =>
            /\ pending_' = pending_ + 1
            /\ q_' = q_ \o <<ch'[c]>>
            /\ frame'[ch'[c]] = "suspended"
            /\ task'[c] = Null
       /\ NotifyStep(c) =>
            /\ Cardinality(cv_') = Cardinality(cv_) - (IF cv_ = {} THEN 0 ELSE 1)
            /\ cv_' \subseteq cv_
            /\ frame' = frame
            /\ task'[c] = Null]_vars

\* C10 witness: a spawn() has returned, its Task is empty, and the frame is
\* alive in the ready queue and counted in pending_.
C10_Witness ==
  \E c \in Callers, u \in Units :
    /\ cpc[c] = "run" /\ task[c] = Null
    /\ frame[u] = "suspended" /\ q_ = <<u>> /\ pending_ = 1
    /\ cv_ = {}

\* C20: a pool constructed with 0 runs exactly one worker thread, a pool
\* constructed with n >= 1 runs exactly n; every one of them is in
\* worker_loop with a local handle of its own.
C20_WorkerCount ==
  /\ Cardinality(Workers) = (IF threads = 0 THEN 1 ELSE threads)
  /\ Workers = 1..Cardinality(Workers)
  /\ DOMAIN wh = Workers
  /\ \A w \in Workers :
       wpc[w] \in {"wait", "running", "check", "destroy", "decrement", "exited"}

\* a pool constructed with 0 whose one worker is running a unit
C20_Witness ==
  /\ threads = 0
  /\ \E w \in Workers : wpc[w] = "running" /\ wh[w] # Null

\* C15: as long as no unit was ever spawned, pending_ is 0 and the ready
\* queue is empty, so the predicate of wait_idle() holds on its first
\* evaluation and main is never blocked on cv_idle_.
C15_WaitIdleWithoutUnits ==
  (\A u \in Units : frame[u] = "none") =>
    /\ pending_ = 0 /\ q_ = <<>>
    /\ "main" \notin cv_idle_

\* main is inside wait_idle(), about to evaluate the predicate, and no unit
\* was spawned
C15_Witness ==
  /\ cpc["main"] = "wait_idle" /\ "main" \notin cv_idle_
  /\ \A u \in Units : frame[u] = "none"

\* C12: the ready queue is first in, first out.  Every step leaves q_ as it
\* is, appends one handle behind all the others, or removes the handle at the
\* front; a worker (and the drain loop) resumes exactly the handle that was
\* at the front, and leaves the others in their order.
C12_Fifo ==
  [][ /\ \/ q_' = q_
         \/ \E u \in Units : q_' = q_ \o <<u>>
         \/ q_ # <<>> /\ q_' = SubSeq(q_, 2, Len(q_))
      /\ \A w \in Workers :
           CallsResume(w) =>
             /\ q_ # <<>> /\ wh'[w] = q_[1]
             /\ q_' = SubSeq(q_, 2, Len(q_))
      /\ Len(q_') < Len(q_) =>
           (DrainCallsResume \/ \E w \in Workers : CallsResume(w))
      /\ DrainCallsResume =>
           /\ q_ # <<>> /\ ch'["main"] = q_[1]
           /\ q_' = SubSeq(q_, 2, Len(q_)) ]_vars

\* a worker runs unit 1, which it took from the front while unit 2 stays queued
C12_Witness ==
  \E w \in Workers :
    /\ wpc[w] = "running" /\ wh[w] = 1
    /\ q_ = <<2>> /\ frame[2] = "suspended" /\ pending_ = 2

\* handle v stands before handle u in the queue
Ahead(v, u, queue) ==
  \E i, j \in 1..Len(queue) : i < j /\ queue[i] = v /\ queue[j] = u

\* unit u suspends at co_await yield_once() in this step
Yields(u) == frame[u] = "running" /\ frame'[u] = "suspended"

Resumed(u) == frame[u] = "suspended" /\ frame'[u] = "running"

C18_NoThreadAffinity ==
  \A v, w \in Workers :
    ( /\ v # w /\ ~terminated
      /\ wpc[v] = "check" /\ q_ # <<>> /\ q_[1] = wh[v]
      /\ wpc[w] = "wait" /\ w \notin cv_ )
    => ENABLED (WorkerWait(w) /\ wpc'[w] = "running" /\ wh'[w] = wh[v])

\* worker 1 ran unit 1 up to its yield and has not yet looked at it again,
\* while worker 2 is running the same unit: two resumptions in a row of one
\* unit on different threads
C18_Witness ==
  /\ Cardinality(Workers) >= 2
  /\ wpc[1] = "check" /\ wh[1] = 1
  /\ wpc[2] = "running" /\ wh[2] = 1
  /\ frame[1] = "running"

\* the threads inside resume() of unit u
Resuming(u) ==
  {w \in Workers : wpc[w] = "running" /\ wh[w] = u}
    \cup {c \in {"main"} : cpc[c] = "drain_running" /\ ch[c] = u}

\* C19: when the body of a unit ends with an unhandled exception the process
\* is terminated.  The thread that resumed the unit never returns from
\* resume(): the unit is not seen as done, not destroyed, and from then on no
\* thread takes a step: pending_ stays as it is and no unit is resumed.
C19_UnhandledExceptionTerminates ==
  /\ [](\A u \in Units :
         frame[u] = "threw" => (terminated /\ Resuming(u) # {}))
  /\ [][ (\E u \in Units : frame[u] = "threw") =>
            /\ pending_' = pending_ /\ frame' = frame
            /\ wpc' = wpc /\ cpc' = cpc /\ q_' = q_ ]_vars

\* unit 1 threw while a worker was running it and unit 2 was still queued
C19_Witness ==
  /\ frame[1] = "threw" /\ terminated
  /\ \E w \in Workers : wpc[w] = "running" /\ wh[w] = 1
  /\ q_ = <<2>> /\ pending_ = 2

\* The steps a thread takes while it holds m_, by the block of the source:
\* spawn's lock_guard block
InSpawnBlock(c) == SpawnStep(c)
\* enqueue_, called by the unit that yields on the thread that runs it
InEnqueue(u) == Yields(u) /\ Resuming(u) # {}
\* wait_idle's unique_lock block: one evaluation of the predicate
InWaitIdleBlock ==
  /\ cpc["main"] = "wait_idle" /\ "main" \notin cv_idle_
  /\ (cpc'["main"] = "run" \/ "main" \in cv_idle_')
\* worker_loop's unique_lock block: wait, stop check, dequeue
InWorkerBlock(w) ==
  /\ wpc[w] = "wait" /\ w \notin cv_
  /\ (wpc'[w] \in {"running", "exited"} \/ w \in cv_')
\* worker_loop's lock_guard block around --pending_
InDecrementBlock(w) == wpc[w] = "decrement" /\ wpc'[w] = "wait"
\* the destructor's block around stop_ = true
InStopBlock == cpc["main"] = "run" /\ cpc'["main"] = "join"
\* the drain loop's lock_guard block
InDrainBlock == cpc["main"] = "drain" /\ cpc'["main"] \in {"drain_running", "end"}

\* C16: q_, pending_ and stop_ are only used under m_.  Every step that
\* changes one of them is a step of a block that holds the mutex, and of a
\* block that names that variable; the steps that the threads take outside
\* the mutex (the notify of spawn, h.done(), h.destroy(), join, the drain's
\* destroy) can be taken whatever the three variables hold.
C16_SharedStateUnderMutex ==
  /\ [][ /\ q_' # q_ =>
              \/ \E c \in Callers : InSpawnBlock(c)
              \/ \E u \in Units : InEnqueue(u)
              \/ \E w \in Workers : InWorkerBlock(w)
              \/ InDrainBlock
         /\ pending_' # pending_ =>
              \/ \E c \in Callers : InSpawnBlock(c)
              \/ \E w \in Workers : InDecrementBlock(w)
         /\ stop_' # stop_ => InStopBlock ]_vars
  /\ [](\A c \in Callers :
          ENABLED SpawnNotify(c) <=> (~terminated /\ cpc[c] = "notify"))
  /\ [](\A w \in Workers :
          /\ ENABLED WorkerCheckDone(w) <=> (~terminated /\ wpc[w] = "check")
          /\ ENABLED WorkerDestroy(w) <=> (~terminated /\ wpc[w] = "destroy"))
  /\ [](ENABLED DtorJoin <=>
          (~terminated /\ cpc["main"] = "join"
             /\ \A w \in Workers : wpc[w] = "exited"))
  /\ [](ENABLED DrainDestroy <=> (~terminated /\ cpc["main"] = "drain_check"))

\* a worker is between its two blocks, about to call h.done() without the
\* mutex, while a spawn() has left its block and not yet notified
C16_Witness ==
  /\ \E w \in Workers : wpc[w] = "check"
  /\ \E c \in Callers : cpc[c] = "notify"
  /\ q_ # <<>> /\ pending_ = 2

\* the workers that hold a handle to unit u in their local h
Holders(u) == {w \in Workers : wh[w] = u}

\* the drain loop holds a handle to unit u in its local h
DrainHolds(u) ==
  cpc["main"] \in {"drain_running", "drain_check"} /\ ch["main"] = u

\* unit u has no suspension point and is in, or has finished, its one resume:
\* it was resumed once and has no yield before it
Direct(u) ==
  /\ frame[u] \in {"running", "done"}
  /\ resumes[u] = 1 /\ left[u] = 0

RunningOn(u) == {w \in Workers : wpc[w] = "running" /\ wh[w] = u}

\* C11 (its safety part): in the example every unit runs its steps one at a
\* time and in order, the step of its n-th resume being step n, on one
\* thread at a time; and wait_idle() returns only when all the units have
\* run all their steps and completed.
C11_StepperRunsToTheEnd ==
  /\ [](\A u \in Units : Cardinality(RunningOn(u)) <= 1)
  /\ [][ /\ \A u \in Units :
             Yields(u) =>
               /\ Cardinality(RunningOn(u)) = 1
               /\ resumes[u] = MaxYields - left[u] + 1
               /\ left'[u] = left[u] - 1
         /\ WaitIdleReturns =>
              \A u \in Units :
                left[u] = 0 /\ frame[u] \in {"done", "destroyed"} ]_vars

\* the units that exist: spawned, and their frame not destroyed
Alive == {u \in Units : frame[u] \in {"suspended", "running", "done"}}

\* the workers between h.destroy() and --pending_
Uncounted == {w \in Workers : wpc[w] = "decrement"}

\* C26: pending_ goes up by one in spawn()'s critical section and nowhere
\* else, and down by one where a worker has seen a unit completed and
\* nowhere else; each unit is counted down once, so that until the
\* destructor drains the queue pending_ is the number of units that exist
\* plus the number of workers that have destroyed one and not yet counted
\* it; and it never goes below zero (the unsigned counter never wraps).
C26_PendingCountsUnits ==
  /\ [](pending_ >= 0)
  /\ [][pending_' # pending_ =>
          \/ pending_' = pending_ + 1 /\ \E c \in Callers : InSpawnBlock(c)
          \/ pending_' = pending_ - 1 /\ \E w \in Workers : InDecrementBlock(w)
       ]_vars
  /\ [](cpc["main"] \in {"run", "notify", "wait_idle", "join"} =>
          pending_ = Cardinality(Alive) + Cardinality(Uncounted))

\* C27: a co_await yield_once() puts the handle of the unit that runs it at
\* the tail of the ready queue, where it was not, notifies one worker, and
\* lets the worker that resumed the unit go on at once; the n-th resume of
\* a unit runs its n-th step, so that in the example, where every body
\* yields MaxYields times, a unit is resumed MaxYields + 1 times up to its
\* completion, and never more.
C27_YieldRequeuesOnce ==
  /\ [][\A u \in Units :
          Yields(u) =>
            /\ ~InQueue(u)
            /\ q_' = Append(q_, u)
            /\ cv_' \in notify_one(cv_)
            /\ RunningOn(u) # {}
            /\ \A w \in RunningOn(u) : wpc'[w] = "check"
            /\ resumes[u] = MaxYields - left[u] + 1
            /\ left'[u] = left[u] - 1]_vars
  /\ [](\A u \in Units :
          /\ frame[u] = "done" => left[u] = 0 /\ resumes[u] = MaxYields + 1
          /\ resumes[u] <= MaxYields + 1)

\* a unit has completed after all its yields while another, resumed once,
\* has yielded and waits in the queue
C27_Witness ==
  /\ counting
  /\ \E u, v \in Units :
       /\ frame[u] = "done" /\ resumes[u] = MaxYields + 1
       /\ frame[v] = "suspended" /\ InQueue(v) /\ resumes[v] = 1
       /\ left[v] = MaxYields - 1

\* worker w returns from worker_loop in this step
WorkerExits(w) == wpc[w] # "exited" /\ wpc'[w] = "exited"

\* worker w is awake at the top of its loop: not blocked in cv_.wait
Woken(w) == wpc[w] = "wait" /\ w \notin cv_

\* C28: a worker leaves its loop only in a step that finds stop_ set and the
\* ready queue empty; and a woken worker that finds the queue non-empty
\* takes the front handle and resumes it, whether stop_ is set or not: that
\* step is possible, and it is the only one the worker can take.
C28_WorkerExitsOnlyWhenDrained ==
  /\ [][\A w \in Workers :
          /\ WorkerExits(w) => stop_ /\ q_ = <<>> /\ Woken(w)
          /\ InWorkerBlock(w) /\ q_ # <<>> =>
               /\ wpc'[w] = "running" /\ wh'[w] = Head(q_)
               /\ q_' = Tail(q_)
               /\ frame'[Head(q_)] = "running"]_vars
  /\ [](\A w \in Workers :
          Woken(w) /\ q_ # <<>> /\ ~terminated =>
            ENABLED (WorkerWait(w) /\ wpc'[w] = "running"))

\* stop was requested and one worker has left; another, awake, finds a
\* handle in the queue
C28_Witness ==
  /\ stop_ /\ q_ # <<>> /\ ~terminated
  /\ \E w, v \in Workers : wpc[w] = "exited" /\ Woken(v)

\* C29: with every thread scheduled fairly, once the destructor has set stop_
\* every worker leaves its loop, the join returns and the drain loop ends.
C29_ShutdownTerminates ==
  stop_ ~> (cpc["main"] = "end" /\ \A w \in Workers : wpc[w] = "exited")

\* the destructor is past the join of the workers
Joined == cpc["main"] \in {"drain", "drain_running", "drain_check", "end"}

\* C30: with the pool used from one thread, so that no spawn() runs during
\* the destruction, the ready queue is empty from the moment the workers are
\* joined, whatever was queued or running when the destructor started; the
\* drain loop takes no handle, nothing is resumed or destroyed after the join
\* and the loop ends at its first test.
C30_NothingLeftToDrain ==
  /\ [](Joined => q_ = <<>> /\ cpc["main"] \in {"drain", "end"})
  /\ [][Joined => /\ ~DrainCallsResume
                  /\ frame' = frame
                  /\ cpc'["main"] = "end"]_vars

\* the destructor has returned from a pool of NumWorkers workers that was
\* given every unit: all workers have left and every unit is destroyed
C30_Witness ==
  /\ cpc["main"] = "end" /\ threads = NumWorkers /\ q_ = <<>>
  /\ \A u \in Units : frame[u] = "destroyed"
  /\ \A w \in Workers : wpc[w] = "exited"

\* ------------------------------------------------- spawn of an empty Task
\* pool.spawn(Task{}): auto h = t.handle(); t = Task{}; with h null
SpawnEmptyCall(c) ==
  /\ ~terminated /\ UNCHANGED <<config, resumes>>
  /\ cpc[c] = "run" /\ PoolAlive
  /\ ch' = [ch EXCEPT ![c] = Null]
  /\ task' = [task EXCEPT ![c] = MoveAssign(Null, Null)]
  /\ cpc' = [cpc EXCEPT ![c] = "empty"]
  /\ UNCHANGED <<q_, pending_, stop_, cv_, cv_idle_, wpc, wh, frame, left,
                 before, terminated>>

\* (mutant) a spawn() that counts the null handle as a unit of work
SpawnEmptyCounted(c) ==
  /\ ~terminated /\ UNCHANGED <<config, resumes>>
  /\ cpc[c] = "empty" /\ ch[c] = Null
  /\ pending_' = pending_ + 1
  /\ cpc' = [cpc EXCEPT ![c] = "run"]
  /\ UNCHANGED <<q_, stop_, cv_, cv_idle_, wpc, wh, frame, left, task, ch,
                 before, terminated>>

\* spawn(): if (!h) return;
SpawnEmptyReturn(c) ==
  /\ ~terminated /\ UNCHANGED <<config, resumes>>
  /\ cpc[c] = "empty" /\ ch[c] = Null
  /\ cpc' = [cpc EXCEPT ![c] = "run"]
  /\ UNCHANGED <<q_, pending_, stop_, cv_, cv_idle_, wpc, wh, frame, left,
                 task, ch, before, terminated>>

\* the pool used by the thread that built it, which also spawns empty Tasks
EmptyNext ==
  \/ MainNext
  \/ SpawnEmptyCall("main")
  \/ SpawnEmptyReturn("main")

EmptySpec == MainInit /\ [][EmptyNext]_vars

\* caller c is inside a spawn() of an empty Task, from the call to the return
InSpawnEmpty(c) == cpc[c] = "empty" \/ cpc'[c] = "empty"

\* C32: a spawn() of an empty Task, from its call to its return, leaves
\* pending_, the ready queue, the workers blocked on cv_ and every frame as
\* they are; the predicate a following wait_idle() waits for is what it was.
C32_SpawnEmptyChangesNothing ==
  [][InSpawnEmpty("main") /\ cpc'["main"] # cpc["main"] =>
       /\ UNCHANGED <<pending_, q_, cv_, cv_idle_, frame, stop_, wpc, wh>>
       /\ IdlePred' = IdlePred]_vars

\* an empty Task was given to an idle pool whose worker is blocked on cv_:
\* spawn() is about to return, and wait_idle() would return at once
C32_Witness ==
  /\ cpc["main"] = "empty" /\ ch["main"] = Null
  /\ IdlePred /\ cv_ # {} /\ frame[1] = "destroyed"

\* ==================================================================
\* The other examples.  Each has its own specification, in which the
\* coroutine pool is constructed and never used.
\* ==================================================================
PoolUnused == Constructed /\ threads = 0 /\ counting = FALSE

\* ==================================================================
\* examples/09_coroutine_async_io.cpp: process_files, resumed by the event
\* loop, with the detached threads its awaits start.  One statement of
\* AsyncTask::get and of EventLoop::run is one step; a block that holds
\* queue_mutex is one step.
\* ==================================================================
NumReads == 3        \* async_read_file tasks that process_files creates

Reads   == 1..NumReads
WriteOp == NumReads + 1               \* the task of async_write_file
Ops     == Reads \cup {WriteOp}

\* the fields of example in this example
ready_queue == example.ready_queue  \* EventLoop::ready_queue, front first
coro        == example.coro         \* state of the frame behind each AsyncTask
io          == example.io           \* position of the detached thread of each
result      == example.result       \* AsyncRead::result has been stored
pf          == example.pf           \* position of process_files
cur         == example.cur          \* the task whose get() it is in (0: none)
handle      == example.handle       \* the local handle of run() (0: none)

\* before process_files is first resumed: no task exists, the loop is empty
IoInit ==
  /\ PoolUnused
  /\ example = [ready_queue |-> <<>>,
                coro        |-> [o \in Ops |-> "none"],
                io          |-> [o \in Ops |-> "none"],
                result      |-> [o \in Ops |-> FALSE],
                pf          |-> "create",
                cur         |-> 0,
                handle      |-> 0]

\* initial_suspend() returns suspend_always: the coroutine call only makes
\* the frame; <<state of the frame, position of its I/O thread>>
Called(o) == <<"created", "none">>

\* EventLoop::schedule(handle)
schedule(queue, h) == Append(queue, h)

\* handle.done()
io_done(o) == coro[o] = "done"

\* auto fileN = async_read_file("dataN.txt"), one task per step
PfCreate ==
  /\ pf = "create"
  /\ \E r \in Reads :
       /\ coro[r] = "none" /\ \A q \in Reads : q < r => coro[q] # "none"
       /\ example' = [example EXCEPT
            !.coro[r] = Called(r)[1],
            !.io[r] = Called(r)[2],
            !.pf = IF r = NumReads THEN "initiated" ELSE "create"]
  /\ UNCHANGED vars

\* the output "[process_files] All reads initiated", then file1.get()
PfInitiated ==
  /\ pf = "initiated"
  /\ example' = [example EXCEPT !.pf = "get", !.cur = 1]
  /\ UNCHANGED vars

\* get(): if (!handle.done()) EventLoop::instance().schedule(handle);
GetSchedule ==
  /\ pf = "get"
  /\ example' = [example EXCEPT
       !.ready_queue = IF io_done(cur) THEN @ ELSE schedule(@, cur),
       !.pf = "while"]
  /\ UNCHANGED vars

\* get(): while (!handle.done())
GetWhile ==
  /\ pf = "while"
  /\ example' = [example EXCEPT !.pf = IF io_done(cur) THEN "got" ELSE "run"]
  /\ UNCHANGED vars

\* run(): the block under queue_mutex: break on an empty queue, else take
\* the front handle
RunLock ==
  /\ pf = "run"
  /\ example' = IF ready_queue = <<>>
                  THEN [example EXCEPT !.pf = "check"]
                  ELSE [example EXCEPT !.handle = Head(ready_queue),
                                       !.ready_queue = Tail(ready_queue),
                                       !.pf = "done?"]
  /\ UNCHANGED vars

\* run(): if (!handle.done())
RunDone ==
  /\ pf = "done?"
  /\ example' = IF io_done(handle)
                  THEN [example EXCEPT !.pf = "run", !.handle = 0]
                  ELSE [example EXCEPT !.pf = "resume"]
  /\ UNCHANGED vars

\* run(): handle.resume().  A created task runs up to its co_await, where
\* await_suspend starts the detached thread; a task suspended there runs
\* await_resume and the rest up to co_return.
RunResume ==
  /\ pf = "resume"
  /\ example' = IF coro[handle] = "created"
                  THEN [example EXCEPT !.coro[handle] = "awaiting",
                                       !.io[handle] = "sleep",
                                       !.pf = "run", !.handle = 0]
                  ELSE [example EXCEPT !.coro[handle] = "done",
                                       !.pf = "run", !.handle = 0]
  /\ UNCHANGED vars

\* get(): if (!handle.done()) after run() returned
GetCheck ==
  /\ pf = "check"
  /\ example' = [example EXCEPT
       !.pf = IF io_done(cur) THEN "while" ELSE "sleep"]
  /\ UNCHANGED vars

\* get(): std::this_thread::sleep_for(10 ms)
GetSleep ==
  /\ pf = "sleep"
  /\ example' = [example EXCEPT !.pf = "while"]
  /\ UNCHANGED vars

\* get() returns the value; process_files prints it and goes on to the next
\* get(), to async_write_file(...) and its get(), or to its co_return
PfGot ==
  /\ pf = "got"
  /\ example' =
       IF cur < NumReads
         THEN [example EXCEPT !.cur = cur + 1, !.pf = "get"]
         ELSE IF cur = NumReads
           THEN [example EXCEPT !.cur = WriteOp, !.pf = "get",
                                !.coro[WriteOp] = Called(WriteOp)[1],
                                !.io[WriteOp] = Called(WriteOp)[2]]
           ELSE [example EXCEPT !.cur = 0, !.pf = "end"]
  /\ UNCHANGED vars

\* the thread of AsyncRead::await_suspend after its sleep:
\* *result_ptr = "Contents of " + fname + " (simulated)";
IoCompose(o) ==
  /\ o \in Reads /\ io[o] = "sleep"
  /\ example' = [example EXCEPT !.io[o] = "composed"]
  /\ UNCHANGED vars

\* const_cast<AsyncRead*>(this)->result = *result_ptr;
IoStore(o) ==
  /\ o \in Reads /\ io[o] = "composed"
  /\ example' = [example EXCEPT !.result[o] = TRUE, !.io[o] = "stored"]
  /\ UNCHANGED vars

\* the last statement of either thread: EventLoop::instance().schedule(handle)
IoSchedule(o) ==
  /\ \/ o \in Reads /\ io[o] = "stored"
     \/ o = WriteOp /\ io[o] = "sleep"
  /\ example' = [example EXCEPT !.ready_queue = schedule(@, o),
                                !.io[o] = "exit"]
  /\ UNCHANGED vars

IoNext ==
  \/ PfCreate
  \/ PfInitiated
  \/ GetSchedule
  \/ GetWhile
  \/ RunLock
  \/ RunDone
  \/ RunResume
  \/ GetCheck
  \/ GetSleep
  \/ PfGot
  \/ \E o \in Ops : IoCompose(o)
  \/ \E o \in Ops : IoStore(o)
  \/ \E o \in Ops : IoSchedule(o)

IoSpec == IoInit /\ [][IoNext]_example

\* the read of task r has started: its body has run to the co_await that
\* starts the I/O thread
Started(r) == coro[r] \in {"awaiting", "done"}

\* C21: in process_files the reads run concurrently: once "All reads
\* initiated" has been printed every read has been started, and when the
\* first read completes the others are already in flight.
C21_ReadsRunConcurrently ==
  /\ pf \notin {"create", "initiated"} => \A r \in Reads : Started(r)
  /\ io_done(1) => \A r \in Reads : Started(r)

\* ==================================================================
\* examples/01_thread_pool_lock_based.cpp: the pool, used by the thread
\* that built it.  A block that holds queue_mutex is one step.
\* ==================================================================
MaxThreads == 2      \* largest argument the lock-based ThreadPool is built with
NumTasks   == 2      \* tasks that main enqueues at most

Tasks == 1..NumTasks

\* the fields of example in this example
workers   == example.workers    \* the position of each worker thread
wtask     == example.wtask      \* the local task of each worker (0: empty)
tasks     == example.tasks      \* std::queue<std::function<void()>>
stop      == example.stop       \* bool
condition == example.condition  \* workers blocked in condition.wait
enqueued  == example.enqueued   \* main has enqueued tasks 1..enqueued
executed  == example.executed   \* history: calls of each task
mpc       == example.mpc        \* position of main

\* main before ThreadPool pool(...): the members as declared
TpInit ==
  /\ PoolUnused
  /\ example = [workers   |-> <<>>,
                wtask     |-> <<>>,
                tasks     |-> <<>>,
                stop      |-> FALSE,
                condition |-> {},
                enqueued  |-> 0,
                executed  |-> [t \in Tasks |-> 0],
                mpc       |-> "ctor"]

\* ThreadPool pool(n): one worker thread per unit of the argument
TpConstruct ==
  /\ mpc = "ctor"
  /\ \E n \in 0..MaxThreads :
       example' = [example EXCEPT !.workers = [w \in 1..n |-> "wait"],
                                  !.wtask = [w \in 1..n |-> 0],
                                  !.mpc = "run"]
  /\ UNCHANGED vars

\* enqueue(f): the block under queue_mutex; stop is false, nothing is thrown
TpEnqueue ==
  /\ mpc = "run" /\ enqueued < NumTasks /\ ~stop
  /\ example' = [example EXCEPT !.tasks = Append(@, enqueued + 1),
                                !.enqueued = @ + 1,
                                !.mpc = "notify_one"]
  /\ UNCHANGED vars

\* enqueue(f): condition.notify_one()
TpNotifyOne ==
  /\ mpc = "notify_one"
  /\ \E c \in notify_one(condition) :
       example' = [example EXCEPT !.condition = c, !.mpc = "run"]
  /\ UNCHANGED vars

\* the worker's block under queue_mutex: condition.wait(lock, pred), the
\* return on stop && tasks.empty(), else task = move(tasks.front()), pop
TpWait(w) ==
  /\ workers[w] = "wait" /\ w \notin condition
  /\ example' =
       IF stop \/ tasks # <<>>
         THEN IF stop /\ tasks = <<>>
                THEN [example EXCEPT !.workers[w] = "exit"]
                ELSE [example EXCEPT !.wtask[w] = Head(tasks),
                                     !.tasks = Tail(@),
                                     !.workers[w] = "task"]
         ELSE [example EXCEPT !.condition = @ \cup {w}]
  /\ UNCHANGED vars

\* a blocked worker wakes without a notify and evaluates the predicate again
TpSpuriousWake(w) ==
  /\ w \in condition
  /\ example' = [example EXCEPT !.condition = @ \ {w}]
  /\ UNCHANGED vars

\* task(); outside the lock, then the next round of while (true), where the
\* local task is a new, empty function
TpRun(w) ==
  /\ workers[w] = "task"
  /\ example' = [example EXCEPT !.executed[wtask[w]] = @ + 1,
                                !.wtask[w] = 0,
                                !.workers[w] = "wait"]
  /\ UNCHANGED vars

\* ~ThreadPool(): { lock; stop = true; }
TpDtorStop ==
  /\ mpc = "run"
  /\ example' = [example EXCEPT !.stop = TRUE, !.mpc = "notify_all"]
  /\ UNCHANGED vars

\* ~ThreadPool(): condition.notify_all()
TpDtorNotifyAll ==
  /\ mpc = "notify_all"
  /\ example' = [example EXCEPT !.condition = notify_all(@), !.mpc = "join"]
  /\ UNCHANGED vars

\* ~ThreadPool(): the loop of worker.join() ends when every worker returned
TpDtorJoin ==
  /\ mpc = "join"
  /\ \A w \in DOMAIN workers : workers[w] = "exit"
  /\ example' = [example EXCEPT !.mpc = "end"]
  /\ UNCHANGED vars

TpNext ==
  \/ TpConstruct
  \/ TpEnqueue
  \/ TpNotifyOne
  \/ \E w \in DOMAIN workers : TpWait(w)
  \/ \E w \in DOMAIN workers : TpSpuriousWake(w)
  \/ \E w \in DOMAIN workers : TpRun(w)
  \/ TpDtorStop
  \/ TpDtorNotifyAll
  \/ TpDtorJoin

TpSpec == TpInit /\ [][TpNext]_example

\* worker w returns from its thread function in this step
TpExits(w) == workers[w] # "exit" /\ workers'[w] = "exit"

\* C22: the destructor waits for the workers: when ~ThreadPool returns every
\* task enqueued before it began has been executed exactly once, no task is
\* ever executed twice, and a worker exits only with stop set and the task
\* queue empty.
C22_DestructorWaitsForTasks ==
  /\ [](mpc = "end" => \A t \in 1..enqueued : executed[t] = 1)
  /\ [](\A t \in Tasks : executed[t] <= 1)
  /\ [][\A w \in DOMAIN workers \cap DOMAIN workers' :
          TpExits(w) => stop /\ tasks = <<>>]_example

\* ------------------------------------------------------------------
\* examples/01_thread_pool_lock_based.cpp with a second thread that holds a
\* reference to the pool and calls enqueue() once, at any moment of the
\* pool's life, the shutdown included.
\* ------------------------------------------------------------------
LateTask == NumTasks + 1      \* the task the second thread enqueues

late == example.late   \* the second thread: "idle", "notify_one", "done",
                       \* or "thrown" after the runtime_error

TpLateInit ==
  /\ PoolUnused
  /\ example = [workers   |-> <<>>,
                wtask     |-> <<>>,
                tasks     |-> <<>>,
                stop      |-> FALSE,
                condition |-> {},
                enqueued  |-> 0,
                executed  |-> [t \in Tasks \cup {LateTask} |-> 0],
                mpc       |-> "ctor",
                late      |-> "idle"]

\* (mutant) an enqueue() that does not look at stop
TpLateEnqueueAccepts ==
  /\ late = "idle" /\ mpc \notin {"ctor", "end"}
  /\ example' = [example EXCEPT !.tasks = Append(@, LateTask),
                                !.late = "notify_one"]
  /\ UNCHANGED vars

\* enqueue(g) of the second thread, the block under queue_mutex:
\* if (stop) throw std::runtime_error(...); tasks.emplace(g);
TpLateEnqueue ==
  /\ late = "idle" /\ mpc \notin {"ctor", "end"}
  /\ example' =
       IF stop
         THEN [example EXCEPT !.late = "thrown"]
         ELSE [example EXCEPT !.tasks = Append(@, LateTask),
                              !.late = "notify_one"]
  /\ UNCHANGED vars

\* enqueue(g) of the second thread: condition.notify_one()
TpLateNotifyOne ==
  /\ late = "notify_one"
  /\ \E c \in notify_one(condition) :
       example' = [example EXCEPT !.condition = c, !.late = "done"]
  /\ UNCHANGED vars

TpLateNext ==
  \/ TpNext
  \/ TpLateEnqueue
  \/ TpLateNotifyOne

TpLateSpec == TpLateInit /\ [][TpLateNext]_example

\* task t is in the task queue
TpQueued(t) == \E i \in DOMAIN tasks : tasks[i] = t

\* C33: an enqueue() that finds stop set throws: the step leaves the task
\* queue, the waiters of the condition variable and the workers as they
\* are, the call does not go on to notify_one, and the rejected task is
\* never in the queue, never taken by a worker and never executed.
C33_EnqueueAfterStopThrows ==
  /\ [][late = "idle" /\ late' # "idle" /\ stop =>
          /\ late' = "thrown"
          /\ tasks' = tasks /\ condition' = condition
          /\ workers' = workers /\ wtask' = wtask
          /\ executed' = executed]_example
  /\ [](late = "thrown" =>
          /\ ~TpQueued(LateTask)
          /\ executed[LateTask] = 0
          /\ \A w \in DOMAIN workers : wtask[w] # LateTask)
  /\ [][late = "thrown" => late' = "thrown"]_example

\* the second thread's enqueue() has thrown between the destructor's
\* stop = true and its notify_all, with a worker blocked and a task queued
C33_Witness ==
  /\ late = "thrown" /\ mpc = "notify_all"
  /\ condition # {} /\ tasks # <<>>

\* ==================================================================
\* examples/06_pubsub_lockfree_rcu.cpp: threads that subscribe once each
\* and a thread that publishes again and again.  An atomic operation on
\* head is one step.
\* ==================================================================
NumSubscribers == 3  \* threads that call subscribe(), once each

Subscribers == 1..NumSubscribers      \* thread s adds node s
NullNode    == 0                      \* the empty shared_ptr

\* the fields of example in this example
head     == example.head      \* std::atomic<std::shared_ptr<SubscriberNode>>
next     == example.next      \* SubscriberNode::next of each node
spc      == example.spc       \* position of each thread in subscribe()
old_head == example.old_head  \* subscribe()'s local old_head
ppc      == example.ppc       \* position of the publisher thread
node     == example.node      \* publish()'s local node
invoked  == example.invoked   \* history: calls of each callback by the
                              \* current publish()
owed     == example.owed      \* history: the subscriptions that had
                              \* returned when the current publish() began

\* RCUEventBroker(): head(nullptr); no thread has called anything
RcuInit ==
  /\ PoolUnused
  /\ example = [head     |-> NullNode,
                next     |-> [s \in Subscribers |-> NullNode],
                spc      |-> [s \in Subscribers |-> "start"],
                old_head |-> [s \in Subscribers |-> NullNode],
                ppc      |-> "idle",
                node     |-> NullNode,
                invoked  |-> [s \in Subscribers |-> 0],
                owed     |-> {}]

\* auto new_node = make_shared<SubscriberNode>(...);
\* auto old_head = head.load(acquire);
SubLoad(s) ==
  /\ spc[s] = "start"
  /\ example' = [example EXCEPT !.old_head[s] = head, !.spc[s] = "link"]
  /\ UNCHANGED vars

\* new_node->next = old_head;
SubLink(s) ==
  /\ spc[s] = "link"
  /\ example' = [example EXCEPT !.next[s] = old_head[s], !.spc[s] = "cas"]
  /\ UNCHANGED vars

\* (mutant) head.store(new_node) in place of the compare-and-swap
SubStore(s) ==
  /\ spc[s] = "cas"
  /\ example' = [example EXCEPT !.head = s, !.spc[s] = "done"]
  /\ UNCHANGED vars

\* head.compare_exchange_weak(old_head, new_node): on success head is the
\* new node and subscribe() returns; on failure, which a weak exchange may
\* also report when head equals old_head, old_head is the value of head and
\* the loop links again
SubCas(s) ==
  /\ spc[s] = "cas"
  /\ \/ /\ head = old_head[s]
        /\ example' = [example EXCEPT !.head = s, !.spc[s] = "done"]
     \/ example' = [example EXCEPT !.old_head[s] = head, !.spc[s] = "link"]
  /\ UNCHANGED vars

\* publish(event): auto node = head.load(acquire); int count = 0;
PubLoad ==
  /\ ppc = "idle"
  /\ example' = [example EXCEPT
       !.node = head,
       !.invoked = [s \in Subscribers |-> 0],
       !.owed = {s \in Subscribers : spc[s] = "done"},
       !.ppc = "walk"]
  /\ UNCHANGED vars

\* while (node) { node->callback(event); node = node->next; count++; }
PubCall ==
  /\ ppc = "walk" /\ node # NullNode
  /\ example' = [example EXCEPT !.invoked[node] = @ + 1, !.node = next[node]]
  /\ UNCHANGED vars

\* the loop ends on an empty node; publish() prints the count and returns
PubReturn ==
  /\ ppc = "walk" /\ node = NullNode
  /\ example' = [example EXCEPT !.ppc = "idle"]
  /\ UNCHANGED vars

RcuNext ==
  \/ \E s \in Subscribers : SubLoad(s)
  \/ \E s \in Subscribers : SubLink(s)
  \/ \E s \in Subscribers : SubCas(s)
  \/ PubLoad
  \/ PubCall
  \/ PubReturn

RcuSpec == RcuInit /\ [][RcuNext]_example

\* count_subscribers(): the length of the list that starts at a node
RECURSIVE count_from(_)
count_from(n) == IF n = NullNode THEN 0 ELSE 1 + count_from(next[n])

count_subscribers == count_from(head)

\* C23: no subscription is lost: when all the subscribe() calls have
\* returned count_subscribers() is their number, and a publish() that is
\* about to return has called exactly once every callback whose subscribe()
\* had returned when it began, and no callback twice.
C23_NoSubscriptionLost ==
  /\ (\A s \in Subscribers : spc[s] = "done")
       => count_subscribers = NumSubscribers
  /\ ppc = "walk" /\ node = NullNode
       => /\ \A s \in owed : invoked[s] = 1
          /\ \A s \in Subscribers : invoked[s] <= 1

\* all the subscriptions are in, the last added while a publish() was
\* running that began after another had returned and has called that one
C23_Witness ==
  /\ \A s \in Subscribers : spc[s] = "done"
  /\ ppc = "walk" /\ node = NullNode
  /\ owed # {} /\ owed # Subscribers
  /\ \A s \in owed : invoked[s] = 1

\* ==================================================================
\* examples/07_atomic_memory_ordering.cpp: test_lock_free_counter.  An
\* atomic operation on count is one step.
\* ==================================================================
IncThreads   == 3    \* threads of test_lock_free_counter
IncPerThread == 2    \* increments_per_thread

Incrementers == 1..IncThreads

\* the fields of example in this example
counter  == example.count     \* LockFreeCounter::count of counter
expected == example.expected  \* increment()'s local expected
ipc      == example.ipc       \* position of each thread
loop_j   == example.loop_j    \* the loop variable j of each thread's lambda

\* LockFreeCounter counter; the threads not yet started
CtrInit ==
  /\ PoolUnused
  /\ example = [count    |-> 0,
                expected |-> [t \in Incrementers |-> 0],
                ipc      |-> [t \in Incrementers |-> "load"],
                loop_j   |-> [t \in Incrementers |-> 0]]

\* increment(): int expected = count.load(relaxed);
IncLoad(t) ==
  /\ ipc[t] = "load"
  /\ example' = [example EXCEPT !.expected[t] = counter, !.ipc[t] = "cas"]
  /\ UNCHANGED vars

\* (mutant) count.store(expected + 1) in place of the compare-and-swap
IncStore(t) ==
  /\ ipc[t] = "cas"
  /\ example' = [example EXCEPT
       !.count = expected[t] + 1,
       !.loop_j[t] = @ + 1,
       !.ipc[t] = IF loop_j[t] + 1 = IncPerThread THEN "done" ELSE "load"]
  /\ UNCHANGED vars

\* while (!count.compare_exchange_weak(expected, expected + 1)) {}: on
\* success count is expected + 1, increment() returns and the lambda's loop
\* goes on or ends; on failure, which a weak exchange may also report when
\* count equals expected, expected is the value of count
IncCas(t) ==
  /\ ipc[t] = "cas"
  /\ \/ /\ counter = expected[t]
        /\ example' = [example EXCEPT
             !.count = expected[t] + 1,
             !.loop_j[t] = @ + 1,
             !.ipc[t] = IF loop_j[t] + 1 = IncPerThread THEN "done"
                                                        ELSE "load"]
     \/ example' = [example EXCEPT !.expected[t] = counter]
  /\ UNCHANGED vars

CtrNext == \E t \in Incrementers : IncLoad(t) \/ IncCas(t)

CtrSpec == CtrInit /\ [][CtrNext]_example

\* get(): count.load(acquire)
get == counter

\* every thread has ended, so that t.join() returns for each
AllJoined == \A t \in Incrementers : ipc[t] = "done"

\* the increment() calls that have returned, over threads 1..n
RECURSIVE Returned(_)
Returned(n) == IF n = 0 THEN 0 ELSE loop_j[n] + Returned(n - 1)

\* C24: once the threads, each having called increment() IncPerThread times,
\* have ended and been joined, get() is IncThreads * IncPerThread; and at
\* any moment count is the number of increment() calls that have returned.
C24_NoLostIncrement ==
  /\ AllJoined => get = IncThreads * IncPerThread
  /\ get = Returned(IncThreads)

\* all the threads have made their calls and ended, and get() is the total
C24_Witness == AllJoined /\ get = IncThreads * IncPerThread

\* ==================================================================
\* examples/07_atomic_memory_ordering.cpp: Spinlock, used by the threads of
\* test_spinlock, each of which may afterwards take and release the lock
\* again any number of times.  An operation on flag is one step; the
\* shared_data++ of a thread is a read and a write.
\* ==================================================================
LockThreads == 3     \* threads of test_spinlock

Lockers == 1..LockThreads

\* the fields of example in this example
flag        == example.flag         \* Spinlock::flag
shared_data == example.shared_data  \* int shared_data of test_spinlock
lpc         == example.lpc          \* position of each thread
tmp         == example.tmp          \* the value read for shared_data++
used        == example.used         \* the thread has run the lambda's
                                    \* critical section

\* Spinlock lock; int shared_data = 0; the threads not yet started
SpinInit ==
  /\ PoolUnused
  /\ example = [flag        |-> FALSE,
                shared_data |-> 0,
                lpc         |-> [t \in Lockers |-> "start"],
                tmp         |-> [t \in Lockers |-> 0],
                used        |-> [t \in Lockers |-> FALSE]]

\* the thread starts and calls lock.lock()
LockCall(t) ==
  /\ lpc[t] = "start"
  /\ example' = [example EXCEPT !.lpc[t] = "spin"]
  /\ UNCHANGED vars

\* (mutant) flag.store(true) in place of test_and_set: lock() returns at once
SetWithoutTest(t) ==
  /\ lpc[t] = "spin"
  /\ example' = [example EXCEPT
       !.flag = TRUE,
       !.lpc[t] = IF used[t] THEN "unlock" ELSE "read"]
  /\ UNCHANGED vars

\* while (flag.test_and_set(acquire)) yield();  The flag is set in either
\* case; lock() returns when it was clear, and spins on when it was set.
TestAndSet(t) ==
  /\ lpc[t] = "spin"
  /\ example' = [example EXCEPT
       !.flag = TRUE,
       !.lpc[t] = IF flag THEN "spin"
                  ELSE IF used[t] THEN "unlock" ELSE "read"]
  /\ UNCHANGED vars

\* shared_data++: the read
Increment_read(t) ==
  /\ lpc[t] = "read"
  /\ example' = [example EXCEPT !.tmp[t] = shared_data, !.lpc[t] = "write"]
  /\ UNCHANGED vars

\* shared_data++: the write; then the sleep and the output
Increment_write(t) ==
  /\ lpc[t] = "write"
  /\ example' = [example EXCEPT !.shared_data = tmp[t] + 1,
                                !.used[t] = TRUE,
                                !.lpc[t] = "unlock"]
  /\ UNCHANGED vars

\* unlock(): flag.clear(release)
Unlock(t) ==
  /\ lpc[t] = "unlock"
  /\ example' = [example EXCEPT !.flag = FALSE, !.lpc[t] = "idle"]
  /\ UNCHANGED vars

\* a thread that has released the lock calls lock() once more, for a
\* critical section that leaves shared_data alone
Relock(t) ==
  /\ lpc[t] = "idle"
  /\ example' = [example EXCEPT !.lpc[t] = "spin"]
  /\ UNCHANGED vars

\* what a thread does once it is inside a call
LockerStep(t) ==
  \/ LockCall(t)
  \/ TestAndSet(t)
  \/ Increment_read(t)
  \/ Increment_write(t)
  \/ Unlock(t)

SpinNext == \E t \in Lockers : LockerStep(t) \/ Relock(t)

\* every started thread is scheduled again and again; a holder always
\* unlocks; nothing makes a thread call lock() once more
SpinSpec ==
  /\ SpinInit
  /\ [][SpinNext]_example
  /\ \A t \in Lockers : WF_example(LockerStep(t))

\* thread t is between a return of lock() and the end of its unlock()
Holding(t) == lpc[t] \in {"read", "write", "unlock"}

\* thread t is inside lock()
Spinning(t) == lpc[t] = "spin"

\* C25 as stated: at most one thread holds the lock at any instant, every
\* thread that calls lock() eventually acquires it, and when each thread
\* has incremented shared_data once under the lock it equals their number.
C25_EveryLockerAcquires ==
  /\ [](Cardinality({t \in Lockers : Holding(t)}) <= 1)
  /\ \A t \in Lockers : Spinning(t) ~> Holding(t)
  /\ []((\A t \in Lockers : used[t]) => shared_data = LockThreads)

\* C25 (amended): at most one thread holds the lock at any instant; a
\* thread that calls lock() eventually acquires it unless other threads
\* acquire the lock again and again; whenever a thread is inside lock()
\* some thread eventually holds the lock; and when each thread has
\* incremented shared_data once under the lock it equals their number.
C25_MutexAndProgress ==
  /\ [](Cardinality({t \in Lockers : Holding(t)}) <= 1)
  /\ \A t \in Lockers :
       \/ Spinning(t) ~> Holding(t)
       \/ []<>(\E u \in Lockers \ {t} : Holding(u))
  /\ (\E t \in Lockers : Spinning(t)) ~> (\E t \in Lockers : Holding(t))
  /\ []((\A t \in Lockers : used[t]) => shared_data = LockThreads)

\* every thread has made its increment, and one of them holds the lock once
\* more while another is inside lock()
C25_Witness ==
  /\ \A t \in Lockers : used[t]
  /\ shared_data = LockThreads
  /\ \E t, u \in Lockers : Holding(t) /\ Spinning(u)

\* ==================================================================
\* examples/coroutine_based_thread_pool.cpp, struct Task on its own: Task
\* objects of one thread that are built, moved, assigned and destroyed
\* without a pool.  One call of a member is one step.
\* ==================================================================
NumTaskObjs == 3     \* Task objects the thread declares
MaxFrames   == 2     \* coroutine calls the thread makes

TaskObjs == 1..NumTaskObjs
Frames   == 1..MaxFrames

obj    == example.obj       \* each Task object: "undeclared", "alive", "gone"
h_of   == example.h_of      \* Task::h_ of each object (Null: nullptr)
cframe == example.cframe    \* each coroutine frame: "none", "suspended",
                            \* "destroyed"

\* no Task declared, no coroutine called
TaskInit ==
  /\ PoolUnused
  /\ example = [obj    |-> [t \in TaskObjs |-> "undeclared"],
                h_of   |-> [t \in TaskObjs |-> Null],
                cframe |-> [f \in Frames |-> "none"]]

\* Task t = coro(...): the frame is created suspended at initial_suspend and
\* get_return_object builds the Task from its handle
TaskFromCoroutine(t) ==
  /\ obj[t] = "undeclared"
  /\ \E f \in Frames :
       /\ cframe[f] = "none"
       /\ \A g \in Frames : cframe[g] = "none" => f <= g
       /\ example' = [example EXCEPT !.obj[t] = "alive",
                                     !.h_of[t] = f,
                                     !.cframe[f] = "suspended"]
  /\ UNCHANGED vars

\* Task t;  h_(nullptr)
TaskDefault(t) ==
  /\ obj[t] = "undeclared"
  /\ example' = [example EXCEPT !.obj[t] = "alive", !.h_of[t] = Null]
  /\ UNCHANGED vars

\* Task t(std::move(other)): h_(std::exchange(other.h_, nullptr))
TaskMove(t, other) ==
  /\ obj[t] = "undeclared" /\ obj[other] = "alive"
  /\ example' = [example EXCEPT !.obj[t] = "alive",
                                !.h_of[t] = h_of[other],
                                !.h_of[other] = Null]
  /\ UNCHANGED vars

\* t = std::move(other), t = other included: if (this != &other)
\* h_ = std::exchange(other.h_, nullptr);
TaskAssign(t, other) ==
  /\ obj[t] = "alive" /\ obj[other] = "alive"
  /\ example' =
       IF t # other
         THEN [example EXCEPT !.h_of[t] = MoveAssign(h_of[t], h_of[other]),
                              !.h_of[other] = Null]
         ELSE example
  /\ UNCHANGED vars

\* the end of t's lifetime: ~Task()
TaskEnd(t) ==
  /\ obj[t] = "alive"
  /\ example' = [example EXCEPT !.obj[t] = "gone",
                                !.cframe = TaskDtor(cframe, h_of[t])]
  /\ UNCHANGED vars

TaskNext ==
  \E t \in TaskObjs :
    \/ TaskFromCoroutine(t)
    \/ TaskDefault(t)
    \/ \E other \in TaskObjs : TaskMove(t, other)
    \/ \E other \in TaskObjs : TaskAssign(t, other)
    \/ TaskEnd(t)

TaskSpec == TaskInit /\ [][TaskNext]_example

\* the Task objects that own frame f
Owners(f) == {t \in TaskObjs : obj[t] = "alive" /\ h_of[t] = f}

\* C31: a frame that exists and was not given to a pool is owned by exactly
\* one Task until it is destroyed, so that the end of the last Task destroys
\* it: no frame is left suspended without an owner, and none has two.
C31_FrameDestroyedOnce ==
  \A f \in Frames :
    /\ cframe[f] = "suspended" => Cardinality(Owners(f)) = 1
    /\ cframe[f] # "suspended" => Owners(f) = {}

\* ==================================================================
\* examples/02_lock_free_queue.cpp: producers and consumers on one
\* LockFreeQueue<int>.  An atomic operation on head, tail or a node's next
\* is one step, and so are the read of next->data and delete old_head.
\* A freed node is not handed out again by new.  A read of a freed node
\* returns what the node held or what the allocator put there.
\* ==================================================================
NumProducers     == 2   \* threads that run producer()
ItemsPerProducer == 1   \* count: enqueue() calls of a producer
NumConsumers     == 2   \* threads that call dequeue()
MaxDequeues      == 2   \* dequeue() calls of one consumer
NoNode           == 0   \* nullptr; also the empty shared_ptr of data

Producers == 1..NumProducers
Consumers == 1..NumConsumers
NumValues == NumProducers * ItemsPerProducer
\* node v holds value v; producer p enqueues the values of ValuesOf(p) in
\* increasing order
QNodes    == 1..NumValues
Dummy     == NumValues + 1          \* the node the constructor allocates
ValuesOf(p) == ((p - 1) * ItemsPerProducer + 1)..(p * ItemsPerProducer)
Garbage   == Dummy + 1              \* a result that no producer enqueued

qhead     == example.qhead      \* std::atomic<Node*> head
qtail     == example.qtail      \* std::atomic<Node*> tail
nnext     == example.nnext      \* Node::next of each node
freed     == example.freed      \* the nodes that were deleted
ppos      == example.ppos       \* position of each producer in enqueue()
sent      == example.sent       \* enqueue() calls each producer has begun
new_node  == example.new_node   \* enqueue's local new_node
old_tail  == example.old_tail   \* enqueue's local old_tail
cpos      == example.cpos       \* position of each consumer in dequeue()
calls     == example.calls      \* dequeue() calls each consumer has begun
dq_head   == example.dq_head    \* dequeue's local old_head
dq_next   == example.dq_next    \* dequeue's local next
dq_result == example.dq_result  \* dequeue's local result
got       == example.got        \* history: what each dequeue() returned
stale     == example.stale      \* history: a freed node was read or written
crashed   == example.crashed    \* a null pointer was dereferenced

\* LockFreeQueue(): head and tail point to the dummy node
LfqInit ==
  /\ PoolUnused
  /\ example = [qhead     |-> Dummy,
                qtail     |-> Dummy,
                nnext     |-> [n \in QNodes \cup {Dummy} |-> NoNode],
                freed     |-> {},
                ppos      |-> [p \in Producers |-> "idle"],
                sent      |-> [p \in Producers |-> 0],
                new_node  |-> [p \in Producers |-> NoNode],
                old_tail  |-> [p \in Producers |-> NoNode],
                cpos      |-> [c \in Consumers |-> "idle"],
                calls     |-> [c \in Consumers |-> 0],
                dq_head   |-> [c \in Consumers |-> NoNode],
                dq_next   |-> [c \in Consumers |-> NoNode],
                dq_result |-> [c \in Consumers |-> NoNode],
                got       |-> [c \in Consumers |-> <<>>],
                stale     |-> FALSE,
                crashed   |-> FALSE]

\* what a load of n->next can return: the field of a live node; of a freed
\* node the old content or null
load_next(n) == IF n \in freed THEN {nnext[n], NoNode} ELSE {nnext[n]}

\* what a read of n->data can return: the value of a live node (none in the
\* dummy); of a freed node the old content or whatever bytes are there now
load_data(n) ==
  IF n \in freed THEN {n, Garbage} ELSE IF n = Dummy THEN {NoNode} ELSE {n}

\* enqueue(value): new_node = new Node(value); old_tail = tail.load()
EnqLoadTail(p) ==
  /\ ~crashed /\ ppos[p] = "idle" /\ sent[p] < ItemsPerProducer
  /\ example' = [example EXCEPT
       !.new_node[p] = (p - 1) * ItemsPerProducer + sent[p] + 1,
       !.sent[p] = @ + 1,
       !.old_tail[p] = qtail,
       !.ppos[p] = "cas_next"]
  /\ UNCHANGED vars

\* enqueue: old_tail->next.compare_exchange_weak(null_ptr, new_node); the
\* weak form may fail although the field is null
EnqCasNext(p) ==
  /\ ~crashed /\ ppos[p] = "cas_next"
  /\ IF old_tail[p] = NoNode
       THEN example' = [example EXCEPT !.crashed = TRUE]
       ELSE \E seen \in load_next(old_tail[p]), spurious \in BOOLEAN :
              example' =
                IF seen = NoNode /\ ~spurious
                  THEN [example EXCEPT
                          !.nnext[old_tail[p]] = new_node[p],
                          !.stale = @ \/ old_tail[p] \in freed,
                          !.ppos[p] = "cas_tail"]
                  ELSE [example EXCEPT
                          !.stale = @ \/ old_tail[p] \in freed,
                          !.ppos[p] = "load_next"]
  /\ UNCHANGED vars

\* enqueue: old_tail = old_tail->next.load()
EnqLoadNext(p) ==
  /\ ~crashed /\ ppos[p] = "load_next"
  /\ \E seen \in load_next(old_tail[p]) :
       example' = [example EXCEPT
                     !.stale = @ \/ old_tail[p] \in freed,
                     !.old_tail[p] = seen,
                     !.ppos[p] = "cas_next"]
  /\ UNCHANGED vars

\* enqueue: tail.compare_exchange_strong(old_tail, new_node)
EnqCasTail(p) ==
  /\ ~crashed /\ ppos[p] = "cas_tail"
  /\ example' = [example EXCEPT
       !.qtail = IF qtail = old_tail[p] THEN new_node[p] ELSE @,
       !.ppos[p] = "idle"]
  /\ UNCHANGED vars

\* dequeue(): old_head = head.load()
DeqLoadHead(c) ==
  /\ ~crashed /\ cpos[c] = "idle" /\ calls[c] < MaxDequeues
  /\ example' = [example EXCEPT !.dq_head[c] = qhead,
                                !.calls[c] = @ + 1,
                                !.cpos[c] = "load_next"]
  /\ UNCHANGED vars

\* dequeue: next = old_head->next.load(); if (next == nullptr) return nullptr
DeqLoadNext(c) ==
  /\ ~crashed /\ cpos[c] = "load_next"
  /\ \E seen \in load_next(dq_head[c]) :
       example' =
         IF seen = NoNode
           THEN [example EXCEPT
                   !.stale = @ \/ dq_head[c] \in freed,
                   !.got[c] = Append(@, NoNode),
                   !.cpos[c] = "idle"]
           ELSE [example EXCEPT
                   !.stale = @ \/ dq_head[c] \in freed,
                   !.dq_next[c] = seen,
                   !.cpos[c] = "cas_head"]
  /\ UNCHANGED vars

\* dequeue: head.compare_exchange_weak(old_head, next); a failure loads the
\* current head into old_head
DeqCasHead(c) ==
  /\ ~crashed /\ cpos[c] = "cas_head"
  /\ \E spurious \in BOOLEAN :
       example' =
         IF qhead = dq_head[c] /\ ~spurious
           THEN [example EXCEPT !.qhead = dq_next[c],
                                !.cpos[c] = "read_data"]
           ELSE [example EXCEPT !.dq_head[c] = qhead,
                                !.cpos[c] = "load_next"]
  /\ UNCHANGED vars

\* dequeue: result = next->data
DeqReadData(c) ==
  /\ ~crashed /\ cpos[c] = "read_data"
  /\ \E seen \in load_data(dq_next[c]) :
       example' = [example EXCEPT
                     !.stale = @ \/ dq_next[c] \in freed,
                     !.dq_result[c] = seen,
                     !.cpos[c] = "delete"]
  /\ UNCHANGED vars

\* dequeue: delete old_head; return result
DeqDelete(c) ==
  /\ ~crashed /\ cpos[c] = "delete"
  /\ example' = [example EXCEPT
                   !.freed = @ \cup {dq_head[c]},
                   !.got[c] = Append(@, dq_result[c]),
                   !.cpos[c] = "idle"]
  /\ UNCHANGED vars

LfqNext ==
  \/ \E p \in Producers :
       EnqLoadTail(p) \/ EnqCasNext(p) \/ EnqLoadNext(p) \/ EnqCasTail(p)
  \/ \E c \in Consumers :
       \/ DeqLoadHead(c) \/ DeqLoadNext(c) \/ DeqCasHead(c)
       \/ DeqReadData(c) \/ DeqDelete(c)

LfqSpec == LfqInit /\ [][LfqNext]_example

\* every producer has returned from its last enqueue()
AllEnqueued == \A p \in Producers : ppos[p] = "idle" /\ sent[p] = ItemsPerProducer

\* the results of consumer c that are not the nullptr of an empty queue
Results(c) == {i \in DOMAIN got[c] : got[c][i] # NoNode}

\* consumer c returns nullptr from dequeue() in this step
ReturnsEmpty(c) ==
  /\ cpos[c] = "load_next" /\ cpos'[c] = "idle"
  /\ got'[c] = Append(got[c], NoNode)

\* C34: dequeue() returns only values whose enqueue() has begun, no value
\* twice, and to one consumer the values of one producer in the order of
\* their enqueue; and a dequeue() that reports empty when every producer is
\* done and no other dequeue() is running finds every value returned.
C34_QueueDeliversEachValueOnce ==
  /\ [](\A c \in Consumers : \A i \in Results(c) :
          /\ got[c][i] \in QNodes
          /\ \E p \in Producers :
               /\ got[c][i] \in ValuesOf(p)
               /\ got[c][i] <= (p - 1) * ItemsPerProducer + sent[p])
  /\ [](\A c, d \in Consumers : \A i \in Results(c), j \in Results(d) :
          got[c][i] = got[d][j] => c = d /\ i = j)
  /\ [](\A c \in Consumers : \A i, j \in Results(c) : \A p \in Producers :
          (i < j /\ got[c][i] \in ValuesOf(p) /\ got[c][j] \in ValuesOf(p))
            => got[c][i] < got[c][j])
  /\ [][\A c \in Consumers :
          (/\ ReturnsEmpty(c) /\ AllEnqueued
           /\ \A d \in Consumers \ {c} : cpos[d] = "idle")
            => \A v \in QNodes :
                 \E d \in Consumers : \E i \in Results(d) : got[d][i] = v]_example

\* C35: no load, compare-exchange or read goes to a node that a dequeue()
\* has deleted: not old_tail->next in enqueue(), not old_head->next and not
\* next->data in dequeue().
C35_NoUseAfterDelete ==
  /\ [](~stale)
  /\ [](\A p \in Producers :
          ppos[p] \in {"cas_next", "load_next"} => old_tail[p] \notin freed)
  /\ [](\A c \in Consumers :
          /\ cpos[c] = "load_next" => dq_head[c] \notin freed
          /\ cpos[c] = "read_data" => dq_next[c] \notin freed)

\* ==================================================================
\* examples/07_atomic_memory_ordering.cpp, class Singleton: the threads of
\* test_singleton, one get_instance() call each.  A load or store of
\* instance, the lock, new Singleton() and the unlock are one step each.
\* The object a thread constructs is named by the thread's number.
\* ==================================================================
NumGetters == 3      \* threads of test_singleton

Getters == 1..NumGetters
NoInstance == Null                  \* nullptr

instance == example.instance   \* static std::atomic<Singleton*>
mutex    == example.mutex      \* the thread that holds the mutex (0: free)
made     == example.made       \* history: the threads that ran new Singleton()
spos     == example.spos       \* position of each thread in get_instance()
stmp     == example.stmp       \* get_instance's local tmp
ret      == example.ret        \* what get_instance() returned to the thread

\* the statics as initialised at line 124-125, no thread started
SingInit ==
  /\ PoolUnused
  /\ example = [instance |-> NoInstance,
                mutex    |-> 0,
                made     |-> {},
                spos     |-> [t \in Getters |-> "call"],
                stmp     |-> [t \in Getters |-> NoInstance],
                ret      |-> [t \in Getters |-> NoInstance]]

\* tmp = instance.load(acquire); if (tmp == nullptr)
SgLoad(t) ==
  /\ spos[t] = "call"
  /\ example' = [example EXCEPT
       !.stmp[t] = instance,
       !.spos[t] = IF instance = NoInstance THEN "lock" ELSE "return"]
  /\ UNCHANGED vars

\* std::lock_guard<std::mutex> lock(mutex)
SgLock(t) ==
  /\ spos[t] = "lock" /\ mutex = 0
  /\ example' = [example EXCEPT !.mutex = t, !.spos[t] = "check"]
  /\ UNCHANGED vars

\* (mutant) a thread that constructs without looking at instance again
SgCheckSkipped(t) ==
  /\ spos[t] = "check"
  /\ example' = [example EXCEPT !.spos[t] = "new"]
  /\ UNCHANGED vars

\* tmp = instance.load(relaxed); if (tmp == nullptr), with the mutex held
SgCheck(t) ==
  /\ spos[t] = "check"
  /\ example' = [example EXCEPT
       !.stmp[t] = instance,
       !.spos[t] = IF instance = NoInstance THEN "new" ELSE "unlock"]
  /\ UNCHANGED vars

\* tmp = new Singleton()
SgNew(t) ==
  /\ spos[t] = "new"
  /\ example' = [example EXCEPT !.made = @ \cup {t},
                                !.stmp[t] = t,
                                !.spos[t] = "store"]
  /\ UNCHANGED vars

\* instance.store(tmp, release)
SgStore(t) ==
  /\ spos[t] = "store"
  /\ example' = [example EXCEPT !.instance = stmp[t], !.spos[t] = "unlock"]
  /\ UNCHANGED vars

\* the end of the lock_guard's block
SgUnlock(t) ==
  /\ spos[t] = "unlock" /\ mutex = t
  /\ example' = [example EXCEPT !.mutex = 0, !.spos[t] = "return"]
  /\ UNCHANGED vars

\* return tmp
SgReturn(t) ==
  /\ spos[t] = "return"
  /\ example' = [example EXCEPT !.ret[t] = stmp[t], !.spos[t] = "done"]
  /\ UNCHANGED vars

SingNext ==
  \E t \in Getters :
    \/ SgLoad(t) \/ SgLock(t) \/ SgCheck(t) \/ SgNew(t)
    \/ SgStore(t) \/ SgUnlock(t) \/ SgReturn(t)

SingSpec == SingInit /\ [][SingNext]_example

\* C36: at most one thread ever constructs a Singleton; a get_instance()
\* that has returned has returned the one object constructed, not nullptr,
\* so all calls return the same pointer.
C36_ConstructedOnce ==
  /\ Cardinality(made) <= 1
  /\ \A t \in Getters :
       spos[t] = "done" => ret[t] # NoInstance /\ made = {ret[t]}
  /\ \A t, u \in Getters :
       spos[t] = "done" /\ spos[u] = "done" => ret[t] = ret[u]

\* a thread that found instance null at its first load holds the mutex and
\* has found it set at its second load: it constructs nothing and is about
\* to return the object that another thread made and has already returned
C36_Witness ==
  \E t, u \in Getters :
    /\ spos[t] = "unlock" /\ mutex = t /\ t \notin made
    /\ stmp[t] # NoInstance
    /\ spos[u] = "done" /\ ret[u] = stmp[t] /\ made = {u}

\* ==================================================================
\* examples/10_hybrid_approach.cpp, class SPSCQueue: one thread that calls
\* enqueue() with the items 1, 2, ... and one that calls dequeue().  A load
\* or store of head.value or tail.value and an access to a buffer slot are
\* one step each.
\* ==================================================================
Size     == 3      \* the template argument Size
MaxItems == 4      \* items the producer has to enqueue

tail         == example.tail          \* tail.value
buffer       == example.buffer        \* T buffer[Size], slots 0..Size-1
prod         == example.prod          \* position of the producer in enqueue()
current_tail == example.current_tail  \* enqueue's local
next_tail    == example.next_tail     \* enqueue's local
pushed       == example.pushed        \* history: enqueue() calls that returned true
enq_ret      == example.enq_ret       \* what the last enqueue() returned
cons         == example.cons          \* position of the consumer in dequeue()
current_head == example.current_head  \* dequeue's local
item         == example.item          \* dequeue's out parameter
received     == example.received      \* history: the items dequeue() delivered
deq_ret      == example.deq_ret       \* what the last dequeue() returned

\* a queue as declared: head and tail 0 (head.value is the field head)
SpscInit ==
  /\ PoolUnused
  /\ example = [head         |-> 0,
                tail         |-> 0,
                buffer       |-> [i \in 0..(Size - 1) |-> 0],
                prod         |-> "idle",
                current_tail |-> 0,
                next_tail    |-> 0,
                pushed       |-> 0,
                enq_ret      |-> TRUE,
                cons         |-> "idle",
                current_head |-> 0,
                item         |-> 0,
                received     |-> <<>>,
                deq_ret      |-> TRUE]

\* enqueue(item): current_tail = tail.value.load(relaxed); next_tail = ...
EnqLoad ==
  /\ prod = "idle" /\ pushed < MaxItems
  /\ example' = [example EXCEPT !.current_tail = tail,
                                !.next_tail = (tail + 1) % Size,
                                !.prod = "check"]
  /\ UNCHANGED vars

\* (mutant) an enqueue() that does not test for a full queue
EnqCheckOmitted ==
  /\ prod = "check"
  /\ example' = [example EXCEPT !.prod = "write"]
  /\ UNCHANGED vars

\* enqueue: if (next_tail == head.value.load(acquire)) return false;
EnqCheck ==
  /\ prod = "check"
  /\ example' =
       IF next_tail = head
         THEN [example EXCEPT !.enq_ret = FALSE, !.prod = "idle"]
         ELSE [example EXCEPT !.prod = "write"]
  /\ UNCHANGED vars

\* enqueue: buffer[current_tail] = item;
EnqWrite ==
  /\ prod = "write"
  /\ example' = [example EXCEPT !.buffer[current_tail] = pushed + 1,
                                !.prod = "store"]
  /\ UNCHANGED vars

\* enqueue: tail.value.store(next_tail, release); return true;
EnqStore ==
  /\ prod = "store"
  /\ example' = [example EXCEPT !.tail = next_tail,
                                !.pushed = @ + 1,
                                !.enq_ret = TRUE,
                                !.prod = "idle"]
  /\ UNCHANGED vars

\* dequeue(item): current_head = head.value.load(relaxed)
DeqLoad ==
  /\ cons = "idle" /\ Len(received) < MaxItems
  /\ example' = [example EXCEPT !.current_head = head, !.cons = "check"]
  /\ UNCHANGED vars

\* dequeue: if (current_head == tail.value.load(acquire)) return false;
DeqCheck ==
  /\ cons = "check"
  /\ example' =
       IF current_head = tail
         THEN [example EXCEPT !.deq_ret = FALSE, !.cons = "idle"]
         ELSE [example EXCEPT !.cons = "read"]
  /\ UNCHANGED vars

\* dequeue: item = buffer[current_head];
DeqRead ==
  /\ cons = "read"
  /\ example' = [example EXCEPT !.item = buffer[current_head],
                                !.cons = "store"]
  /\ UNCHANGED vars

\* dequeue: head.value.store((current_head + 1) % Size, release); return true;
DeqStore ==
  /\ cons = "store"
  /\ example' = [example EXCEPT !.head = (current_head + 1) % Size,
                                !.received = Append(@, item),
                                !.deq_ret = TRUE,
                                !.cons = "idle"]
  /\ UNCHANGED vars

SpscNext ==
  \/ EnqLoad \/ EnqCheck \/ EnqWrite \/ EnqStore
  \/ DeqLoad \/ DeqCheck \/ DeqRead \/ DeqStore

SpscSpec == SpscInit /\ [][SpscNext]_example

\* the items in the queue: enqueued and not yet dequeued
Held == pushed - Len(received)

\* C37: the consumer receives the items 1, 2, ... in this order, each once;
\* the queue holds what lies between head and tail, never more than
\* Size - 1 items; an enqueue() returns false exactly when it finds the
\* queue full and a dequeue() exactly when it finds it empty, and the step
\* that does so leaves head, tail and the buffer as they are.
C37_SpscInOrderAndBounded ==
  /\ [](received = [i \in 1..Len(received) |-> i])
  /\ [](Len(received) <= pushed)
  /\ [](Held = (tail - head + Size) % Size /\ Held <= Size - 1)
  /\ [][(prod = "check" /\ prod' # "check") =>
          /\ (prod' = "idle") = (Held = Size - 1)
          /\ prod' = "idle" =>
               /\ ~enq_ret'
               /\ UNCHANGED <<head, tail, buffer, pushed>>]_example
  /\ [][(cons = "check" /\ cons' # "check") =>
          /\ (cons' = "idle") = (Held = 0)
          /\ cons' = "idle" =>
               /\ ~deq_ret'
               /\ UNCHANGED <<head, tail, buffer, received>>]_example

\* the indices have wrapped around, the queue is full again and the last
\* enqueue() has returned false
C37_Witness ==
  /\ prod = "idle" /\ ~enq_ret /\ Held = Size - 1
  /\ tail < head /\ Len(received) >= 1

====
